---- MODULE Spec2Model ----
(***************************************************************************)
(* A model of SpineEngine (src/spine_engine/spine_engine.py): the two      *)
(* pipelines (backward, forward) built from the items, the successors and  *)
(* the execution permits, the run() loop that feeds the pipelines' events  *)
(* to _process_event, compute_fn of every solid, and stop() called from    *)
(* another thread while run() is in progress.                              *)
(*                                                                         *)
(* The pipelines are executed by execute_pipeline_iterator in process and  *)
(* one step at a time: a step starts (STEP_START) when all the steps it    *)
(* takes inputs from have succeeded, runs compute_fn, and ends with        *)
(* STEP_SUCCESS or STEP_FAILURE; a step with a failed or skipped input     *)
(* step is skipped and never starts.                                       *)
(*                                                                         *)
(* run() executes in one thread and stop() in another, so each read and    *)
(* each write of _state is a step of its own where the two can interleave. *)
(*                                                                         *)
(* The module also models Project (src/spine_engine/project/project.py),   *)
(* the directed graph of nodes, edges and jumps that add_node,             *)
(* rename_node, remove_node, add_edge, remove_edge and make_jump build:    *)
(* every call is one step, which records in result how the call ended.     *)
(* Spec is the engine, ProjectSpec and WideProjectSpec are the project.    *)
(***************************************************************************)
EXTENDS Integers, Sequences, FiniteSets, TLC

\* ---------------------------------------------------------------- bounds
MaxRuns == 1
MaxJumps == 2
MaxPartCounts == 2
MaxKernelManagers == 3

\* ------------------------------------------------------------- constants
Items == {"A", "B", "C"}
ItemOrder == <<"A", "B", "C">>
None == "None"

BACKWARD == "BACKWARD"
FORWARD == "FORWARD"
ExecutionDirection == {FORWARD, BACKWARD}

SLEEPING == "SLEEPING"
RUNNING == "RUNNING"
USER_STOPPED == "USER_STOPPED"
FAILED == "FAILED"
COMPLETED == "COMPLETED"
SpineEngineState == {SLEEPING, RUNNING, USER_STOPPED, FAILED, COMPLETED}

VARIABLES
    successors,         \* item name -> list of successor item names
    execution_permits,  \* item name -> BOOLEAN
    state,              \* SpineEngine._state
    running_item,       \* SpineEngine._running_item
    pc,                 \* where the thread inside run() is
    direction,          \* the pipeline run() is iterating
    current,            \* the item of the step in progress
    status,             \* direction -> item -> how far its step got
    outputs,            \* direction -> item -> the Output value of its step
    trace,              \* what the engine did in this run, in order
    stop_calls,         \* when stop() was called since run() was last called
    runs                \* number of run() calls so far

\* The state of a Project (src/spine_engine/project/project.py).
VARIABLES
    name_pool,          \* the names the project's methods are called with
    nodes,              \* the names of the project's nodes
    edges,              \* the edges: <<source, destination, connection>>
    jumps,              \* self.graph[Key.JUMPS], a list
    result              \* the last call on the project and how it ended

\* A Connection (src/spine_engine/project/connection.py), a project
\* dictionary (src/spine_engine/project/project_upgrader.py) and what the
\* last call on one of them returned.
VARIABLES
    connection,         \* a Connection: its options and its filter settings
    project_dict,       \* a project dictionary, as read from project.json
    returned,           \* the last call and what it returned or raised
    part_counts         \* the PartCount objects made, each with the edge it was made for

\* The specifications of a project and the items of its nodes that support
\* specifications (src/spine_engine/project/project.py, project_item.py).
VARIABLES
    specifications,     \* self.graph[Key.SPECIFICATIONS]: the names, a list
    spec_items          \* the nodes with such an item, in the order they were
                        \* added, each with the specification of its item

\* The kernel manager factory
\* (src/spine_engine/execution_managers/kernel_execution_manager.py).
VARIABLES
    managers_made,              \* the KernelManager objects made, in the order they were made
    kernel_managers,            \* _kernel_managers
    key_by_connection_file      \* _key_by_connection_file

engine_vars == <<successors, execution_permits, state, running_item, pc, direction,
                 current, status, outputs, trace, stop_calls, runs>>
project_vars == <<name_pool, nodes, edges, jumps, result>>
specification_vars == <<specifications, spec_items>>
kernel_vars == <<managers_made, kernel_managers, key_by_connection_file>>
function_vars == <<connection, project_dict, returned, part_counts, specification_vars,
                   kernel_vars>>
vars == <<engine_vars, project_vars, function_vars>>

\* ------------------------------------------------------------ helpers
\* The items of S as a list, in the order of the project_items list.
SeqOf(S) == SelectSeq(ItemOrder, LAMBDA i : i \in S)

Range(s) == {s[n] : n \in DOMAIN s}

\* The values of the first input only.
FlattenFirst(names, values) ==
    IF names = <<>> THEN <<>> ELSE values[Head(names)]

RECURSIVE Flatten(_, _)
\* [val for values in inputs.values() for val in values]
Flatten(names, values) ==
    IF names = <<>> THEN <<>>
    ELSE values[Head(names)] \o Flatten(Tail(names), values)

\* The successor maps the engine is constructed with: the acyclic graphs on
\* the items whose edges follow ItemOrder.
Dags ==
    {g \in [Items -> SUBSET Items] :
        /\ g["A"] \subseteq {"B", "C"}
        /\ g["B"] \subseteq {"C"}
        /\ g["C"] = {}}

\* back_injectors: the successors, keyed by item.
BackInjectors == successors

\* inverted(back_injectors): every value of the input mapped to the list of
\* the keys it appears under, in the order of the keys.
Inverted(input) ==
    [v \in Items |-> SelectSeq(ItemOrder, LAMBDA k : v \in Range(input[k]))]

ForthInjectors == Inverted(BackInjectors)

\* Injectors with the two pipelines given each other's injectors.
InjectorsSwapped(d) == IF d = BACKWARD THEN ForthInjectors ELSE BackInjectors

\* The injectors of a pipeline, and with them its dependencies: the solid of
\* an item has one input per injector, fed by the injector's "result".
Injectors(d) == IF d = BACKWARD THEN BackInjectors ELSE ForthInjectors

MakeDependencies(d, i) == Range(Injectors(d)[i])

\* item.output_resources(direction): what the item declares in a direction.
OutputResources(i, d) ==
    IF i = "B"
    THEN <<[provider |-> i, direction |-> d, label |-> 1],
           [provider |-> i, direction |-> d, label |-> 2]>>
    ELSE <<[provider |-> i, direction |-> d, label |-> 1]>>

\* Whether stop() has been called since this run() began.
StopCalledInRun == "in_run" \in stop_calls

\* An entry of the trace; each keeps whether stop() had been called in the
\* run by then.
Entry(kind, item, dir, st, ok, inputs) ==
    [kind |-> kind, item |-> item, direction |-> dir, state |-> st,
     ok |-> ok, inputs |-> inputs, after_stop |-> StopCalledInRun]

Pending == [d \in ExecutionDirection |-> [i \in Items |-> "pending"]]
NoOutputs == [d \in ExecutionDirection |-> [i \in Items |-> <<>>]]

\* ------------------------------------------------------ project graph
\* The names the methods of a project are called with: three names and one
\* more whose short name is that of another, or four names with different
\* short names. InvalidName has one of the INVALID_CHARS.
NodeNames == {"a", "b", "c", "A"}
WideNodeNames == {"a", "b", "c", "d"}
InvalidName == "a/b"
INVALID_CHARS == {"<", ">", ":", "\"", "/", "\\", "|", "?", "*", "."}

\* The characters of a name.
Characters(name) == IF name = InvalidName THEN {"a", "/", "b"} ELSE {name}

\* shorten(name): the name in lower case, spaces replaced by underscores.
shorten(name) == IF name = "A" THEN "a" ELSE name

\* The "connection" attribute an edge is added with.
Connection == "connection"

\* Jump(source, destination)
Jump(source, destination) == [source |-> source, destination |-> destination]

\* What result holds before the first call.
NoCall == [op |-> "none", error |-> None, message |-> ""]
Returned(op) == [op |-> op, error |-> None, message |-> ""]
Raised(op, error, message) == [op |-> op, error |-> error, message |-> message]

Pairs(E) == {<<e[1], e[2]>> : e \in E}

\* The nodes reached from the nodes of S along at most k edges of E.
RECURSIVE Descendants(_, _, _)
Descendants(E, S, k) ==
    IF k = 0 THEN S
    ELSE Descendants(E, S \cup {e[2] : e \in {x \in E : x[1] \in S}}, k - 1)

\* A test that finds no path.
has_no_path(N, E, source, target) == FALSE

\* nx.has_path(self, source, target)
has_path(N, E, source, target) == target \in Descendants(E, {source}, Cardinality(N))

\* nx.reverse_view(self)
reverse_view(E) == {<<e[2], e[1]>> : e \in E}

\* A graph that keeps the edges of the nodes removed from it.
remove_node_only(E, name) == E

\* super().remove_node(name): the edges of the node go with it.
remove_node(E, name) == {e \in E : e[1] /= name /\ e[2] /= name}

\* A test that takes every graph for acyclic.
is_anything(N, E) == TRUE

\* nx.is_directed_acyclic_graph(self): no edge closes a cycle.
is_directed_acyclic_graph(N, E) ==
    \A e \in E : e[1] \notin Descendants(E, {e[2]}, Cardinality(N))

\* The nodes on the simple paths nx.all_simple_paths finds from a node to a
\* different target, the nodes of visited being on the path already.
RECURSIVE all_simple_paths(_, _, _, _)
all_simple_paths(E, from, target, visited) ==
    IF from = target THEN {target}
    ELSE UNION {IF onward = {} THEN {} ELSE onward \cup {from} :
                   onward \in {all_simple_paths(E, e[2], target, visited \cup {e[2]}) :
                                  e \in {x \in E : x[1] = from /\ x[2] \notin visited}}}

\* _get_nodes_by_jump: the nodes between destination and source of every
\* jump, keyed by <<source, destination>>. all_simple_paths raises
\* NodeNotFound, or finds nothing, when one of the two nodes is missing;
\* from a node to itself it yields the path [n] or nothing (self_path),
\* depending on the networkx at hand.
get_nodes_by_jump(N, E, J, self_path) ==
    [k \in {<<J[n].source, J[n].destination>> : n \in DOMAIN J} |->
        IF k[1] \notin N \/ k[2] \notin N THEN {}
        ELSE IF k[1] = k[2] THEN (IF self_path THEN {k[1]} ELSE {})
        ELSE all_simple_paths(Pairs(E), k[2], k[1], {k[2]})]

\* ------------------------------------------------- connection, data
\* A dictionary entry that may be missing: no value, or one value.
Absent == <<>>

\* dict.get(key, default)
get(dict, key, default) == IF dict[key] = Absent THEN default ELSE dict[key][1]

\* The dictionaries that map some of the keys of K to values of V.
Dicts(K, V) == UNION {[D -> V] : D \in SUBSET K}

\* The filter type of spinedb_api.filters.scenario_filter, and another one.
SCENARIO_FILTER_TYPE == "scenario_filter"
FilterTypes == {SCENARIO_FILTER_TYPE, "tool_filter"}

\* The resource labels and the filter names of the known filters.
Labels == {"database@Data Store"}
FilterNames == {"scenario_1"}

\* The write indexes the connections are given.
WriteIndexes == 0 .. 2

\* Connection.__init__(options=None): no option is set.
NoOptions ==
    [use_memory_db |-> Absent, write_index |-> Absent, require_scenario_filter |-> Absent]

\* FilterSettings(known_filters, auto_online), a dataclass.
FilterSettings(known_filters, auto_online) ==
    [known_filters |-> known_filters, auto_online |-> auto_online]

\* FilterSettings(): no known filters, auto_online is True.
DefaultFilterSettings == FilterSettings(<<>>, TRUE)

\* Connection.__init__
NewConnection(options, filter_settings) ==
    [options |-> options, filter_settings |-> filter_settings]

\* The options, the filter settings and the connections the functions are
\* called on.
OptionsDrawn ==
    [use_memory_db : {Absent, <<TRUE>>, <<FALSE>>},
     write_index : {Absent} \cup {<<index>> : index \in WriteIndexes},
     require_scenario_filter : {Absent, <<TRUE>>, <<FALSE>>}]

FilterSettingsDrawn ==
    {FilterSettings(known_filters, auto_online) :
        known_filters \in Dicts(Labels, Dicts(FilterTypes, Dicts(FilterNames, BOOLEAN))),
        auto_online \in BOOLEAN}

ConnectionsDrawn ==
    {NewConnection(options, filter_settings) :
        options \in OptionsDrawn, filter_settings \in FilterSettingsDrawn}

\* Connection.use_memory_db
use_memory_db(self) == get(self.options, "use_memory_db", FALSE)

\* Connection.write_index
write_index(self) == get(self.options, "write_index", 1)

\* Connection.require_filter_online
require_filter_online(self, filter_type) ==
    get(self.options, "require_" \o filter_type, FALSE)

\* FilterSettings.has_filters: some label has a filter of some type.
has_filters(self) ==
    \E label \in DOMAIN self.known_filters :
       \E filter_type \in DOMAIN self.known_filters[label] :
          DOMAIN self.known_filters[label][filter_type] /= {}

\* A test that finds no filter online.
has_no_filter_online(self, filter_type) == FALSE

\* FilterSettings.has_filter_online
has_filter_online(self, filter_type) ==
    \E label \in DOMAIN self.known_filters :
       /\ filter_type \in DOMAIN self.known_filters[label]
       /\ \E name \in DOMAIN self.known_filters[label][filter_type] :
             self.known_filters[label][filter_type][name]

\* Connection.notifications
notifications(self) ==
    IF /\ require_filter_online(self, SCENARIO_FILTER_TYPE)
       /\ IF has_filters(self.filter_settings)
          THEN ~has_filter_online(self.filter_settings, SCENARIO_FILTER_TYPE)
          ELSE ~self.filter_settings.auto_online
    THEN <<"At least one scenario filter must be active.">>
    ELSE <<>>

\* EngineConnection.ready_to_execute
ready_to_execute(self) ==
    ~(/\ require_filter_online(self, SCENARIO_FILTER_TYPE)
      /\ ~has_filter_online(self.filter_settings, SCENARIO_FILTER_TYPE))

\* A resource of a project item: its type and its metadata.
Resource(type_, metadata) == [type_ |-> type_, metadata |-> metadata]

\* ProjectItemResource.clone(additional_metadata): a new resource whose
\* metadata is the metadata of the resource updated with the additional one.
clone(resource, additional_metadata) ==
    Resource(resource.type_,
             [key \in DOMAIN resource.metadata \cup DOMAIN additional_metadata |->
                 IF key \in DOMAIN additional_metadata THEN additional_metadata[key]
                 ELSE resource.metadata[key]])

\* The siblings with a write index at most that of the connection.
no_later_siblings(self, sibling_connections) ==
    {names \in DOMAIN sibling_connections :
        write_index(sibling_connections[names]) <= write_index(self)}

\* _apply_write_index, the precursors: the siblings that write earlier.
earlier_siblings(self, sibling_connections) ==
    {names \in DOMAIN sibling_connections :
        write_index(sibling_connections[names]) < write_index(self)}

\* The places of the database resources among the first n resources.
databases(resources, n) == {m \in 1..n : resources[m].type_ = "database"}

\* PartCount(): a new object each time; an object is known by its place
\* among the objects made, made being the number of those made before.
PartCount(made) == made + 1

\* Connection._apply_write_index
apply_write_index(self, resources, node_names, sibling_connections) ==
    LET precursors == earlier_siblings(self, sibling_connections)
    IN [n \in DOMAIN resources |->
           IF resources[n].type_ = "database"
           THEN clone(resources[n],
                      [current |-> node_names,
                       precursors |-> precursors,
                       part_count |-> PartCount(Len(part_counts)
                                                + Cardinality(databases(resources, n - 1)))])
           ELSE resources[n]]

\* Connection._apply_use_memory_db
apply_use_memory_db(self, resources) ==
    IF ~use_memory_db(self) THEN resources
    ELSE [n \in DOMAIN resources |->
             IF resources[n].type_ = "database"
             THEN clone(resources[n], [memory |-> TRUE])
             ELSE resources[n]]

\* Connection.convert_backward_resources
convert_backward_resources(self, resources, node_names, sibling_connections) ==
    apply_use_memory_db(self, apply_write_index(self, resources, node_names, sibling_connections))

\* Connection.to_dict: the options when there are any, a dictionary of the
\* filter settings (dataclasses.asdict) when there are filters; no other key.
to_dict(self) ==
    [options |-> IF self.options /= NoOptions THEN <<self.options>> ELSE Absent,
     filter_settings |-> IF has_filters(self.filter_settings)
                         THEN <<self.filter_settings>> ELSE Absent,
     disabled_filters |-> Absent]

\* _restore_legacy_disabled_filters
restore_legacy_disabled_filters(disabled_filter_names) ==
    [label \in DOMAIN disabled_filter_names |->
        [filter_type \in DOMAIN disabled_filter_names[label] |->
            [name \in Range(disabled_filter_names[label][filter_type]) |-> FALSE]]]

\* Connection.from_dict
from_dict(connection_dict) ==
    LET options == get(connection_dict, "options", NoOptions)
    IN IF connection_dict.filter_settings /= Absent
       THEN NewConnection(options,
                          FilterSettings(connection_dict.filter_settings[1].known_filters,
                                         connection_dict.filter_settings[1].auto_online))
       ELSE IF connection_dict.disabled_filters /= Absent
       THEN NewConnection(options,
                          FilterSettings(restore_legacy_disabled_filters(
                                             connection_dict.disabled_filters[1]), TRUE))
       ELSE NewConnection(options, DefaultFilterSettings)

\* --------------------------------------------------- upgrader, data
LATEST_PROJECT_VERSION == 12

\* The name of the project items module and the version of its item
\* dictionaries (src/tests/mock_project_items/items_module).
items_module == "items_module"
LATEST_PROJECT_DICT_ITEMS_VERSION == 1

\* A project dictionary: the "project" part with the version, the name
\* (up to version 8), the connections, the specifications and the item
\* packages (from version 11 on), and the item dictionaries.
ProjectDict(version, name, connections, items) ==
    [project |-> [version |-> version,
                  name |-> name,
                  connections |-> connections,
                  specifications |-> <<>>,
                  project_item_packages |-> Absent],
     items |-> items]

\* A connection dictionary of a project dictionary.
ConnectionDict(source, destination) ==
    [from |-> <<source, "right">>, to |-> <<destination, "left">>]

\* The versions of the project dictionaries that upgrade is called with: the
\* upgrades from version 8 on are modelled.
VersionsDrawn == 8 .. LATEST_PROJECT_VERSION + 1

ProjectDictsDrawn ==
    {ProjectDict(version, name, connections, items) :
        version \in VersionsDrawn,
        name \in {Absent, <<"project">>},
        connections \in {<<>>, <<ConnectionDict("a", "b")>>},
        items \in [{"a", "b"} -> [type : {"Data Store", "GdxExporter"}]]}

\* What an upgrade step gives: the exception it raised, or None and the new
\* dictionary.
Upgraded(dict) == [error |-> None, dict |-> dict]
Failed(error) == [error |-> error, dict |-> <<>>]

\* upgrade_v8_to_v9: the name of the project is removed.
upgrade_v8_to_v9(old) ==
    Upgraded([old EXCEPT !.project.version = 9, !.project.name = Absent])

\* upgrade_v9_to_v10: the Gimlet and GdxExporter items and their connections
\* are removed. A connection between two such items is listed for removal
\* twice, and the second list.remove raises ValueError.
upgrade_v9_to_v10(old) ==
    LET names_to_remove ==
            {name \in DOMAIN old.items : old.items[name].type \in {"Gimlet", "GdxExporter"}}
        Listed(conn) ==
            {name \in names_to_remove : name \in Range(conn.from) \/ name \in Range(conn.to)}
        connections == old.project.connections
    IN IF \E n \in DOMAIN connections : Cardinality(Listed(connections[n])) > 1
       THEN Failed("ValueError")
       ELSE Upgraded([old EXCEPT
                         !.project.version = 10,
                         !.project.connections =
                             SelectSeq(connections, LAMBDA conn : Listed(conn) = {}),
                         !.items = [name \in DOMAIN old.items \ names_to_remove |->
                                       old.items[name]]])

\* upgrade_v10_to_v11: the item packages are added, the specifications and
\* the items are moved under the name of the items module.
upgrade_v10_to_v11(old) ==
    Upgraded([old EXCEPT
                 !.project.version = 11,
                 !.project.project_item_packages =
                     <<[package \in {items_module} |->
                          [version |-> LATEST_PROJECT_DICT_ITEMS_VERSION]]>>,
                 !.project.specifications =
                     [package \in {items_module} |-> old.project.specifications],
                 !.items = [package \in {items_module} |-> old.items]])

\* _upgrade_to_latest: the loop, from old_version on. No step is taken for
\* a version that has no branch.
RECURSIVE upgrade_to_latest(_, _)
upgrade_to_latest(dict, old_version) ==
    IF ~(old_version < LATEST_PROJECT_VERSION) THEN Upgraded(dict)
    ELSE LET step == IF old_version = 8 THEN upgrade_v8_to_v9(dict)
                     ELSE IF old_version = 9 THEN upgrade_v9_to_v10(dict)
                     ELSE IF old_version = 10 THEN upgrade_v10_to_v11(dict)
                     ELSE Upgraded(dict)
         IN IF step.error /= None THEN step
            ELSE upgrade_to_latest(step.dict, old_version + 1)

\* What upgrade gives: the exception it raised, or None and the tuple it
\* returned.
UpgradeReturned(dict, old_version, new_version) ==
    [error |-> None, tuple |-> <<dict, old_version, new_version>>]
UpgradeRaised(error) == [error |-> error, tuple |-> <<>>]

\* An upgrade that takes every version at least the latest for the latest.
upgrade_unchecked(dict) ==
    LET v == dict.project.version
    IN IF v < LATEST_PROJECT_VERSION
       THEN LET upgraded == upgrade_to_latest(dict, v)
            IN IF upgraded.error /= None THEN UpgradeRaised(upgraded.error)
               ELSE UpgradeReturned(upgraded.dict, v, LATEST_PROJECT_VERSION)
       ELSE UpgradeReturned(dict, v, v)

\* upgrade(project_dict, project_dir, items_module)
upgrade(dict) ==
    LET v == dict.project.version
    IN IF v > LATEST_PROJECT_VERSION THEN UpgradeRaised("ProjectVersionTooHigh")
       ELSE IF v < LATEST_PROJECT_VERSION
       THEN LET upgraded == upgrade_to_latest(dict, v)
            IN IF upgraded.error /= None THEN UpgradeRaised(upgraded.error)
               ELSE UpgradeReturned(upgraded.dict, v, LATEST_PROJECT_VERSION)
       ELSE UpgradeReturned(dict, v, v)

\* What no call returned yet.
NothingReturned == [op |-> "none", args |-> <<>>, value |-> <<>>]

\* A project dictionary of the latest version.
LatestProjectDict ==
    ProjectDict(LATEST_PROJECT_VERSION, Absent, <<>>, [package \in {items_module} |-> <<>>])

\* A project without specifications and a factory that has made no kernel
\* manager.
NothingElse ==
    /\ specifications = <<>>
    /\ spec_items = <<>>
    /\ managers_made = <<>>
    /\ kernel_managers = <<>>
    /\ key_by_connection_file = <<>>

\* The connection and the project dictionary of a program that calls none
\* of their functions.
NoFunctionCalled ==
    /\ connection = NewConnection(NoOptions, DefaultFilterSettings)
    /\ project_dict = LatestProjectDict
    /\ returned = NothingReturned
    /\ part_counts = <<>>
    /\ NothingElse

\* ---------------------------------------------------------------- Init
\* SpineEngine.__init__
Init ==
    /\ \E g \in Dags : successors = [i \in Items |-> SeqOf(g[i])]
    /\ execution_permits \in [Items -> BOOLEAN]
    /\ state = SLEEPING
    /\ running_item = None
    /\ pc = "idle"
    /\ direction = BACKWARD
    /\ current = None
    /\ status = Pending
    /\ outputs = NoOutputs
    /\ trace = <<>>
    /\ stop_calls = {}
    /\ runs = 0
    /\ name_pool = {}
    /\ nodes = {}
    /\ edges = {}
    /\ jumps = <<>>
    /\ result = NoCall
    /\ NoFunctionCalled

\* ------------------------------------------------------------- actions
\* run(): self._state = RUNNING, then the backward pipeline is iterated.
RunStart ==
    /\ pc = "idle"
    /\ runs < MaxRuns
    /\ state' = RUNNING
    /\ pc' = "sched"
    /\ direction' = BACKWARD
    /\ current' = None
    /\ status' = Pending
    /\ outputs' = NoOutputs
    /\ trace' = <<>>
    /\ stop_calls' = {}
    /\ runs' = runs + 1
    /\ UNCHANGED <<project_vars, function_vars, successors, execution_permits, running_item>>

\* A step with a failed or skipped input step is not executed.
MustSkip(d, i) ==
    /\ status[d][i] = "pending"
    /\ \E k \in MakeDependencies(d, i) : status[d][k] \in {"failure", "skipped"}

\* A step is ready when every step it takes an input from has succeeded.
StepReady(d, i) ==
    /\ status[d][i] = "pending"
    /\ \A k \in MakeDependencies(d, i) : status[d][k] = "success"

\* STEP_START of the solid of item i reaches _process_event. The steps to skip
\* are dealt with before the next step starts.
StepStart(i) ==
    /\ pc = "sched"
    /\ StepReady(direction, i)
    /\ ~\E k \in Items : MustSkip(direction, k)
    /\ running_item' = i
    /\ trace' = Append(trace, Entry("exec_started", i, direction, "-", TRUE, <<>>))
    /\ status' = [status EXCEPT ![direction][i] = "started"]
    /\ current' = i
    /\ pc' = "compute"
    /\ UNCHANGED <<project_vars, function_vars, successors, execution_permits, state, direction, outputs, stop_calls, runs>>

\* The steps with a failed or skipped input step are skipped; STEP_SKIPPED is
\* none of the event types _process_event handles.
StepSkip ==
    /\ pc = "sched"
    /\ \E k \in Items : MustSkip(direction, k)
    /\ status' = [status EXCEPT ![direction] =
                     [i \in Items |-> IF MustSkip(direction, i) THEN "skipped" ELSE @[i]]]
    /\ UNCHANGED <<project_vars, function_vars, successors, execution_permits, state, running_item, pc,
                   direction, current, outputs, trace, stop_calls, runs>>

\* The test of compute_fn without FAILED, and without USER_STOPPED.
StateForbidsComputeIgnoringFailed == state = USER_STOPPED
StateForbidsComputeIgnoringStop == state = FAILED

\* compute_fn, its first statement: the test of the engine's state.
StateForbidsCompute == state \in {USER_STOPPED, FAILED}

ComputeFnCheck ==
    /\ pc = "compute"
    /\ pc' = IF StateForbidsCompute THEN "failure_event" ELSE "invoke"
    /\ UNCHANGED <<project_vars, function_vars, successors, execution_permits, state, running_item, direction,
                   current, status, outputs, trace, stop_calls, runs>>

\* compute_fn without the test of the execution permit.
ContractAlwaysExecute(i) == "execute"

\* Which contract compute_fn calls for an item.
Contract(i) == IF execution_permits[i] THEN "execute" ELSE "skip"

\* compute_fn, the rest: the inputs are flattened, the item is executed or
\* skipped, and on success the item's output resources are yielded.
ComputeFnInvoke ==
    /\ pc = "invoke"
    /\ LET inputs == Flatten(Injectors(direction)[current], outputs[direction])
       IN \E ok \in BOOLEAN :
            /\ (Contract(current) = "skip") => ok
            /\ trace' = Append(trace, Entry(Contract(current), current, direction, "-", ok, inputs))
            /\ IF ok
               THEN /\ outputs' = [outputs EXCEPT ![direction][current] =
                                        OutputResources(current, direction)]
                    /\ pc' = "success_event"
               ELSE /\ outputs' = outputs
                    /\ pc' = "failure_event"
    /\ UNCHANGED <<project_vars, function_vars, successors, execution_permits, state, running_item, direction,
                   current, status, stop_calls, runs>>

\* An exec_finished event that carries RUNNING whatever the state is.
FinishedStateAlwaysRunning == RUNNING

\* The "state" of an exec_finished event: self._state at the dispatch.
FinishedState == state

\* _process_event, STEP_SUCCESS.
ProcessStepSuccess ==
    /\ pc = "success_event"
    /\ trace' = Append(trace, Entry("exec_finished", current, direction, FinishedState, TRUE, <<>>))
    /\ status' = [status EXCEPT ![direction][current] = "success"]
    /\ current' = None
    /\ pc' = "sched"
    /\ UNCHANGED <<project_vars, function_vars, successors, execution_permits, state, running_item, direction,
                   outputs, stop_calls, runs>>

\* _process_event, STEP_FAILURE: _running_item is set and _state is tested.
ProcessStepFailureCheck ==
    /\ pc = "failure_event"
    /\ running_item' = current
    /\ pc' = IF state /= USER_STOPPED THEN "failure_set" ELSE "failure_dispatch"
    /\ UNCHANGED <<project_vars, function_vars, successors, execution_permits, state, direction, current,
                   status, outputs, trace, stop_calls, runs>>

\* _process_event without the assignment of FAILED.
StateAfterFailureKept == state

\* The state a step failure puts the engine in.
StateAfterFailure == FAILED

\* _process_event, STEP_FAILURE: self._state = FAILED.
ProcessStepFailureSet ==
    /\ pc = "failure_set"
    /\ state' = StateAfterFailure
    /\ pc' = "failure_dispatch"
    /\ UNCHANGED <<project_vars, function_vars, successors, execution_permits, running_item, direction, current,
                   status, outputs, trace, stop_calls, runs>>

\* _process_event, STEP_FAILURE: exec_finished is dispatched.
ProcessStepFailureDispatch ==
    /\ pc = "failure_dispatch"
    /\ trace' = Append(trace, Entry("exec_finished", current, direction, FinishedState, FALSE, <<>>))
    /\ status' = [status EXCEPT ![direction][current] = "failure"]
    /\ current' = None
    /\ pc' = "sched"
    /\ UNCHANGED <<project_vars, function_vars, successors, execution_permits, state, running_item, direction,
                   outputs, stop_calls, runs>>

\* A loop over a pipeline that ends after the first step.
PipelineDoneEarly(d) == \E i \in Items : status[d][i] \in {"success", "failure", "skipped"}

\* The iterator of a pipeline is exhausted when no step is left to start or skip.
PipelineDone(d) == \A i \in Items : status[d][i] \in {"success", "failure", "skipped"}

\* The forward pipeline begun with the state set back to RUNNING.
BackwardPipelineEndResettingState ==
    /\ pc = "sched"
    /\ direction = BACKWARD
    /\ PipelineDone(BACKWARD)
    /\ direction' = FORWARD
    /\ state' = RUNNING
    /\ UNCHANGED <<project_vars, function_vars, successors, execution_permits, running_item, pc,
                   current, status, outputs, trace, stop_calls, runs>>

\* run(): the backward loop ends and the forward pipeline is iterated.
BackwardPipelineEnd ==
    /\ pc = "sched"
    /\ direction = BACKWARD
    /\ PipelineDone(BACKWARD)
    /\ direction' = FORWARD
    /\ UNCHANGED <<project_vars, function_vars, successors, execution_permits, state, running_item, pc,
                   current, status, outputs, trace, stop_calls, runs>>

\* run(): the forward loop ends; if self._state == RUNNING.
RunEndCheck ==
    /\ pc = "sched"
    /\ direction = FORWARD
    /\ PipelineDone(FORWARD)
    /\ pc' = IF state = RUNNING THEN "end_set" ELSE "idle"
    /\ UNCHANGED <<project_vars, function_vars, successors, execution_permits, state, running_item, direction,
                   current, status, outputs, trace, stop_calls, runs>>

\* run(): self._state = COMPLETED, and run() returns.
RunEndSet ==
    /\ pc = "end_set"
    /\ state' = COMPLETED
    /\ pc' = "idle"
    /\ UNCHANGED <<project_vars, function_vars, successors, execution_permits, running_item, direction,
                   current, status, outputs, trace, stop_calls, runs>>

\* Whether the step of item i has started and has not finished.
Executing(i) == i /= None /\ current = i /\ pc \notin {"idle", "sched"}

\* Whether stop() asks an item to stop.
StopAsksItem == running_item /= None

\* stop(), from another thread: USER_STOPPED is assigned and, if _running_item
\* is set, stop_execution() is called on it. stop_calls keeps whether run() was
\* in progress at the call.
Stop ==
    /\ state' = USER_STOPPED
    /\ stop_calls' = stop_calls \cup {IF pc /= "idle" THEN "in_run" ELSE "outside_run"}
    /\ UNCHANGED <<project_vars, function_vars, successors, execution_permits, running_item, pc, direction,
                   current, status, outputs, trace, runs>>

Next ==
    \/ RunStart
    \/ \E i \in Items : StepStart(i)
    \/ StepSkip
    \/ ComputeFnCheck
    \/ ComputeFnInvoke
    \/ ProcessStepSuccess
    \/ ProcessStepFailureCheck
    \/ ProcessStepFailureSet
    \/ ProcessStepFailureDispatch
    \/ BackwardPipelineEnd
    \/ RunEndCheck
    \/ RunEndSet
    \/ Stop

Spec == Init /\ [][Next]_vars

\* ------------------------------------------------- project, validation
\* What all_simple_paths can yield from a node to itself, as far as the
\* jumps of J tell the difference: it is asked so only for a jump from a
\* node to itself.
self_paths(J) ==
    IF \E n \in DOMAIN J : J[n].source = J[n].destination THEN BOOLEAN ELSE {FALSE}

\* _validate_project_item_name: the exception the name raises, or None. The
\* short names of the existing nodes differ, so the order in which the
\* existing names are gone through makes no difference.
validate_project_item_name(name) ==
    IF Characters(name) \cap INVALID_CHARS /= {} THEN "NameContainsInvalidCharacters"
    ELSE IF name \in nodes THEN "DuplicateName"
    ELSE IF \E existing_name \in nodes : shorten(name) = shorten(existing_name)
         THEN "DuplicateShortName"
    ELSE None

\* A test that takes no two loops for overlapping.
NoOverlap(jump_items, other_items) == FALSE

\* "intersection not in (set(), jump_items, other_items)"
PartialOverlap(jump_items, other_items) ==
    LET intersection == jump_items \cap other_items
    IN intersection \notin {{}, jump_items, other_items}

Key(jump) == <<jump.source, jump.destination>>

\* Tests that let every two jumps, and no two jumps, start from one item.
same_source_never(jump, other) == FALSE
same_source_always(jump, other) == TRUE

\* "other.source == jump.source"
same_source(jump, other) == other.source = jump.source

\* A list whose last element stays.
delete_nothing(J) == J

\* "del self.graph[Key.JUMPS][-1]"
delete_last(J) == SubSeq(J, 1, Len(J) - 1)

\* A validation that raises nothing after the loop over the other jumps.
validate_nothing(N, E, jump) == ""

\* _validate_jump, after the loop over the other jumps: the message of the
\* InvalidJump the jump raises in the graph (N, E), or "" when it is valid.
validate_direction(N, E, jump) ==
    IF jump.destination \notin N THEN "Loop destination not found in DAG"
    ELSE IF jump.source \notin N THEN "Loop source not found in DAG"
    ELSE IF jump.source = jump.destination THEN ""
    ELSE IF has_path(N, E, jump.source, jump.destination)
         THEN "Cannot loop in forward direction."
    ELSE IF ~has_path(N, reverse_view(E), jump.source, jump.destination)
         THEN "Cannot loop between DAG branches."
    ELSE ""

\* _validate_jump for the n-th jump of the list J, from the m-th of the
\* other jumps on: the message of the first InvalidJump, or "" when none is
\* raised.
RECURSIVE validate_against_others(_, _, _, _, _, _)
validate_against_others(N, E, J, n, items_by_jump, m) ==
    IF m > Len(J) THEN validate_direction(N, E, J[n])
    ELSE IF m = n THEN validate_against_others(N, E, J, n, items_by_jump, m + 1)
    ELSE IF same_source(J[n], J[m]) THEN "two jumps cannot start from the same item"
    ELSE IF PartialOverlap(items_by_jump[Key(J[n])], items_by_jump[Key(J[m])])
         THEN "jump cannot partially overlap another"
    ELSE validate_against_others(N, E, J, n, items_by_jump, m + 1)

\* _validate_jump for the n-th jump of the list J in the graph (N, E).
validate_jump(N, E, J, n, items_by_jump) ==
    validate_against_others(N, E, J, n, items_by_jump, 1)

\* A validation in which no jump raises.
AllValid(N, E, J, self_path) == [n \in DOMAIN J |-> ""]

\* The messages of _validate_jump for every jump of J, in the order of J.
Validated(N, E, J, self_path) ==
    [n \in DOMAIN J |-> validate_jump(N, E, J, n, get_nodes_by_jump(N, E, J, self_path))]

\* A selection that keeps no element.
SelectNothing(J, keep, n) == <<>>

RECURSIVE SelectIndexes(_, _, _)
\* The elements of J whose index is in keep, from the n-th on, in the order
\* of J.
SelectIndexes(J, keep, n) ==
    IF n > Len(J) THEN <<>>
    ELSE (IF n \in keep THEN <<J[n]>> ELSE <<>>) \o SelectIndexes(J, keep, n + 1)

\* --------------------------------------------------- project, actions
\* Project.__init__: no nodes, no edges, no jumps. The engine is left as
\* constructed and is not run.
ProjectCreated(called_with) ==
    /\ successors = [i \in Items |-> <<>>]
    /\ execution_permits = [i \in Items |-> TRUE]
    /\ state = SLEEPING
    /\ running_item = None
    /\ pc = "idle"
    /\ direction = BACKWARD
    /\ current = None
    /\ status = Pending
    /\ outputs = NoOutputs
    /\ trace = <<>>
    /\ stop_calls = {}
    /\ runs = 0
    /\ name_pool = called_with
    /\ nodes = {}
    /\ edges = {}
    /\ jumps = <<>>
    /\ result = NoCall

ProjectInit == ProjectCreated(NodeNames) /\ NoFunctionCalled

\* add_node(name)
AddNode(name) ==
    /\ LET error == validate_project_item_name(name)
       IN IF error /= None
          THEN /\ result' = Raised("add_node", error, "")
               /\ UNCHANGED nodes
          ELSE /\ nodes' = nodes \cup {name}
               /\ result' = Returned("add_node")
    /\ UNCHANGED <<engine_vars, function_vars, name_pool, edges, jumps>>

\* No short names at all.
no_short_names(N) == {}

\* rename_node: "{shorten(node) for node in self.nodes}"
short_names(N) == {shorten(node) : node \in N}

\* A renaming that forgets the destination of the jump.
renamed_source(jump, name, new_name) ==
    [source |-> IF jump.source = name THEN new_name ELSE jump.source,
     destination |-> jump.destination]

\* rename_node, the loop over the jumps: the jump after its source and its
\* destination took the new name of the node.
renamed(jump, name, new_name) ==
    [source |-> IF jump.source = name THEN new_name ELSE jump.source,
     destination |-> IF jump.destination = name THEN new_name ELSE jump.destination]

\* rename_node(name, new_name)
RenameNode(name, new_name) ==
    /\ IF name \notin nodes
       THEN /\ result' = Raised("rename_node", "ProjectComponentNotFound", "")
            /\ UNCHANGED <<nodes, edges, jumps>>
       ELSE IF new_name \in nodes
       THEN /\ result' = Raised("rename_node", "DuplicateName", "")
            /\ UNCHANGED <<nodes, edges, jumps>>
       ELSE IF shorten(new_name) \in short_names(nodes)
       THEN /\ result' = Raised("rename_node", "DuplicateShortName", "")
            /\ UNCHANGED <<nodes, edges, jumps>>
       ELSE LET incoming_edges == {e \in edges : e[2] = name}
                outgoing_edges == {e \in edges : e[1] = name}
                removed == remove_node(edges, name)
            IN /\ nodes' = (nodes \ {name}) \cup {new_name}
               /\ edges' = removed \cup {<<e[1], new_name, e[3]>> : e \in incoming_edges}
                                   \cup {<<new_name, e[2], e[3]>> : e \in outgoing_edges}
               /\ jumps' = [n \in DOMAIN jumps |-> renamed(jumps[n], name, new_name)]
               /\ result' = Returned("rename_node")
    /\ UNCHANGED <<engine_vars, function_vars, name_pool>>

\* remove_node(name)
RemoveNode(name) ==
    /\ IF name \notin nodes
       THEN /\ result' = Raised("remove_node", "ProjectComponentNotFound", "")
            /\ UNCHANGED <<nodes, edges, jumps>>
       ELSE \E self_path \in self_paths(jumps) :
            LET N == nodes \ {name}
                E == remove_node(edges, name)
                untouched == {n \in DOMAIN jumps : jumps[n].source /= name
                                                    /\ jumps[n].destination /= name}
                jumps_to_keep == SelectIndexes(jumps, untouched, 1)
            IN /\ nodes' = N
               /\ edges' = E
               /\ jumps' = IF jumps_to_keep /= <<>>
                           THEN LET messages == Validated(N, E, jumps, self_path)
                                    valid == {n \in DOMAIN jumps : messages[n] = ""}
                                IN SelectIndexes(jumps, valid, 1)
                           ELSE jumps_to_keep
               /\ result' = Returned("remove_node")
    /\ UNCHANGED <<engine_vars, function_vars, name_pool>>

\* add_edge(source, destination, connection=Connection(...))
AddEdge(source, destination) ==
    /\ IF source \notin nodes \/ destination \notin nodes
       THEN /\ result' = Raised("add_edge", "ProjectComponentNotFound", "")
            /\ UNCHANGED edges
       ELSE IF source = destination
       THEN /\ result' = Raised("add_edge", "InvalidConnection",
                                "cannot connect item back to itself")
            /\ UNCHANGED edges
       ELSE LET old == {e \in edges : e[1] = source /\ e[2] = destination}
                added == (edges \ old)
                            \cup {<<source, destination, Connection>>}
            IN IF ~is_directed_acyclic_graph(nodes, added)
               THEN /\ edges' = {e \in added : ~(e[1] = source /\ e[2] = destination)}
                    /\ result' = Raised("add_edge", "InvalidConnection", "cannot create loops")
               ELSE /\ edges' = added
                    /\ result' = Returned("add_edge")
    /\ UNCHANGED <<engine_vars, function_vars, name_pool, nodes, jumps>>

\* remove_edge(source, destination)
RemoveEdge(source, destination) ==
    /\ LET edge == {e \in edges : e[1] = source /\ e[2] = destination}
           removed == edges \ edge
       IN IF edge = {}
          THEN /\ result' = Raised("remove_edge", "ProjectComponentNotFound", "")
               /\ UNCHANGED edges
          ELSE \E self_path \in self_paths(jumps) :
               \E messages \in {Validated(nodes, removed, jumps, self_path)} :
               LET invalid == {n \in DOMAIN jumps : messages[n] /= ""}
               IN IF jumps = <<>> \/ invalid = {}
                  THEN /\ edges' = removed
                       /\ result' = Returned("remove_edge")
                  ELSE /\ edges' = removed \cup {<<source, destination,
                                                   (CHOOSE e \in edge : TRUE)[3]>>}
                       /\ result' = Raised("remove_edge", "InvalidJump",
                                           messages[CHOOSE n \in invalid :
                                                       \A m \in invalid : n <= m])
    /\ UNCHANGED <<engine_vars, function_vars, name_pool, nodes, jumps>>

\* make_jump(source, destination). No more than MaxJumps jumps are stored.
MakeJump(source, destination) ==
    /\ IF source \notin nodes \/ destination \notin nodes
       THEN /\ result' = Raised("make_jump", "ProjectComponentNotFound", "")
            /\ UNCHANGED jumps
       ELSE IF \E n \in DOMAIN jumps : Key(jumps[n]) = <<source, destination>>
       THEN /\ result' = Returned("make_jump")
            /\ UNCHANGED jumps
       ELSE LET appended == Append(jumps, Jump(source, destination))
            IN \E self_path \in self_paths(appended) :
               \E message \in {validate_jump(nodes, edges, appended, Len(appended),
                                             get_nodes_by_jump(nodes, edges, appended,
                                                               self_path))} :
                  IF message /= ""
                  THEN /\ jumps' = delete_last(appended)
                       /\ result' = Raised("make_jump", "InvalidJump", message)
                  ELSE /\ jumps' = appended
                       /\ Len(appended) <= MaxJumps
                       /\ result' = Returned("make_jump")
    /\ UNCHANGED <<engine_vars, function_vars, name_pool, nodes, edges>>

ProjectNext ==
    \/ \E name \in name_pool \cup {InvalidName} : AddNode(name)
    \/ \E name, new_name \in name_pool : RenameNode(name, new_name)
    \/ \E name \in name_pool : RemoveNode(name)
    \/ \E source, destination \in name_pool : AddEdge(source, destination)
    \/ \E source, destination \in name_pool : RemoveEdge(source, destination)
    \/ \E source, destination \in name_pool : MakeJump(source, destination)

ProjectSpec == ProjectInit /\ [][ProjectNext]_vars

\* The same project, its methods called with four names that can be the
\* names of four nodes at once, and only the calls that raise nothing.
WideProjectInit == ProjectCreated(WideNodeNames) /\ NoFunctionCalled

Succeeds == result'.error = None

WideProjectNext ==
    \/ \E name \in name_pool : AddNode(name) /\ Succeeds
    \/ \E name, new_name \in name_pool : RenameNode(name, new_name) /\ Succeeds
    \/ \E name \in name_pool : RemoveNode(name) /\ Succeeds
    \/ \E source, destination \in name_pool : AddEdge(source, destination) /\ Succeeds
    \/ \E source, destination \in name_pool : RemoveEdge(source, destination) /\ Succeeds
    \/ \E source, destination \in name_pool : MakeJump(source, destination) /\ Succeeds

WideProjectSpec == WideProjectInit /\ [][WideProjectNext]_vars

\* The nodes of a project alone: add_node, rename_node and remove_node
\* called with the names of the pool and with a name that has an invalid
\* character.
NameNext ==
    \/ \E name \in name_pool \cup {InvalidName} : AddNode(name)
    \/ \E name, new_name \in name_pool \cup {InvalidName} : RenameNode(name, new_name)
    \/ \E name \in name_pool \cup {InvalidName} : RemoveNode(name)

NameSpec == ProjectInit /\ [][NameNext]_vars

\* The connections that add_edge is called with in the built projects.
Connections == {Connection, "other connection"}

\* The lists of at most n different jumps between the nodes of N.
RECURSIVE JumpLists(_, _)
JumpLists(N, n) ==
    IF n = 0 THEN {<<>>}
    ELSE LET shorter == JumpLists(N, n - 1)
         IN shorter \cup {Append(J, Jump(s, d)) :
                             J \in {L \in shorter : Len(L) = n - 1}, s \in N, d \in N}

\* A project built by add_node, add_edge and make_jump calls that raised
\* nothing: three nodes, the edges of a directed acyclic graph, each with the
\* connection it was added with, and jumps that passed their validation.
\* The names of called_with are the names the methods are called with next.
ProjectBuilt(called_with, N) ==
    /\ successors = [i \in Items |-> <<>>]
    /\ execution_permits = [i \in Items |-> TRUE]
    /\ state = SLEEPING
    /\ running_item = None
    /\ pc = "idle"
    /\ direction = BACKWARD
    /\ current = None
    /\ status = Pending
    /\ outputs = NoOutputs
    /\ trace = <<>>
    /\ stop_calls = {}
    /\ runs = 0
    /\ name_pool = called_with
    /\ nodes = N
    /\ \E pairs \in SUBSET {p \in N \X N : p[1] /= p[2]} :
       \E attr \in [pairs -> Connections] :
       \E E \in {{<<p[1], p[2], attr[p]>> : p \in pairs}} :
          /\ is_directed_acyclic_graph(N, E)
          /\ edges = E
          /\ \E J \in JumpLists(N, MaxJumps) :
                /\ \E self_path \in self_paths(J) :
                      \A n \in DOMAIN J : Validated(N, E, J, self_path)[n] = ""
                /\ jumps = J
    /\ result = NoCall

\* The nodes of the built projects.
BuiltNodes == {"a", "b", "c"}

RenameInit == ProjectBuilt(WideNodeNames, BuiltNodes) /\ NoFunctionCalled

\* rename_node called on the built projects.
RenameNext == \E name, new_name \in name_pool : RenameNode(name, new_name)

RenameSpec == RenameInit /\ [][RenameNext]_vars

\* ------------------------------------------- specifications, actions
\* The names of the specifications.
SpecificationNames == {"Test Specification", "other specification"}

\* A node whose item is a SpecificationSupportingProjectItem.
SpecificationItem(name, specification) == [name |-> name, specification |-> specification]

\* add_specification(specification), the specification having the name
AddSpecification(name) ==
    /\ IF \E n \in DOMAIN specifications : specifications[n] = name
       THEN /\ result' = Raised("add_specification", "DuplicateName", "")
            /\ UNCHANGED specifications
       ELSE /\ specifications' = Append(specifications, name)
            /\ result' = Returned("add_specification")
    /\ UNCHANGED <<engine_vars, name_pool, nodes, edges, jumps, connection, project_dict,
                   returned, part_counts, spec_items, kernel_vars>>

\* add_node(name, item=SpecificationSupportingProjectItem("", specification))
AddItemNode(name, specification) ==
    /\ LET error == validate_project_item_name(name)
       IN IF error /= None
          THEN /\ result' = Raised("add_node", error, "")
               /\ UNCHANGED <<nodes, spec_items>>
          ELSE /\ nodes' = nodes \cup {name}
               /\ spec_items' = Append(spec_items, SpecificationItem(name, specification))
               /\ result' = Returned("add_node")
    /\ UNCHANGED <<engine_vars, name_pool, edges, jumps, connection, project_dict, returned,
                   part_counts, specifications, kernel_vars>>

\* del self.graph[Key.SPECIFICATIONS][i]
delete_at(list, i) == [n \in 1..(Len(list) - 1) |-> IF n < i THEN list[n] ELSE list[n + 1]]

\* The place of the first item whose get_specification() returns None, where
\* ".name" raises AttributeError; past the end when there is none.
first_unspecified(I) ==
    IF \E n \in DOMAIN I : I[n].specification = None
    THEN CHOOSE n \in DOMAIN I :
            /\ I[n].specification = None
            /\ \A m \in 1..(n - 1) : I[m].specification /= None
    ELSE Len(I) + 1

\* remove_specification(name)
RemoveSpecification(name) ==
    /\ IF \A n \in DOMAIN specifications : specifications[n] /= name
       THEN /\ result' = Raised("remove_specification", "ProjectComponentNotFound", "")
            /\ UNCHANGED <<specifications, spec_items>>
       ELSE LET i == CHOOSE n \in DOMAIN specifications :
                        /\ specifications[n] = name
                        /\ \A m \in 1..(n - 1) : specifications[m] /= name
                stop == first_unspecified(spec_items)
            IN /\ specifications' = delete_at(specifications, i)
               /\ spec_items' = [n \in DOMAIN spec_items |->
                                   IF n < stop /\ spec_items[n].specification = name
                                   THEN SpecificationItem(spec_items[n].name, None)
                                   ELSE spec_items[n]]
               /\ result' = IF stop <= Len(spec_items)
                            THEN Raised("remove_specification", "AttributeError", "")
                            ELSE Returned("remove_specification")
    /\ UNCHANGED <<engine_vars, name_pool, nodes, edges, jumps, connection, project_dict,
                   returned, part_counts, kernel_vars>>

SpecificationInit == ProjectCreated(BuiltNodes) /\ NoFunctionCalled

SpecificationNext ==
    \/ \E name \in SpecificationNames : AddSpecification(name)
    \/ \E name \in name_pool, specification \in SpecificationNames \cup {None} :
          AddItemNode(name, specification)
    \/ \E name \in SpecificationNames : RemoveSpecification(name)

SpecificationSpec == SpecificationInit /\ [][SpecificationNext]_vars

\* ------------------------------------------------ connection, actions
\* The resource lists, the node names and the sibling connections that
\* convert_backward_resources is called with.
ResourcesDrawn ==
    {<<Resource("database", [filterable |-> TRUE])>>,
     <<Resource("file", [filterable |-> FALSE]),
       Resource("database", [filterable |-> TRUE, memory |-> FALSE])>>}

NodeNamesDrawn == {<<"source", "destination">>}

SiblingsDrawn ==
    Dicts({<<"source_a", "destination">>, <<"source_b", "destination">>},
          {NewConnection([NoOptions EXCEPT !.write_index = index], DefaultFilterSettings) :
              index \in {Absent} \cup {<<w>> : w \in WriteIndexes}})

\* A connection as a test makes it; no method of a project is called.
ConnectionInit ==
    /\ ProjectCreated({})
    /\ connection \in ConnectionsDrawn
    /\ project_dict = LatestProjectDict
    /\ returned = NothingReturned
    /\ part_counts = <<>>
    /\ NothingElse

\* A call, the arguments it was made with and what it returned.
Value(op, args, value) == [op |-> op, args |-> args, value |-> value]

\* connection.notifications()
Notifications ==
    /\ returned' = Value("notifications", <<>>, notifications(connection))
    /\ UNCHANGED <<engine_vars, project_vars, connection, project_dict, part_counts,
                   specification_vars, kernel_vars>>

\* connection.ready_to_execute(), the connection being an EngineConnection
ReadyToExecute ==
    /\ returned' = Value("ready_to_execute", <<>>, <<ready_to_execute(connection)>>)
    /\ UNCHANGED <<engine_vars, project_vars, connection, project_dict, part_counts,
                   specification_vars, kernel_vars>>

\* connection.convert_backward_resources(resources, node_names, sibling_connections)
ConvertBackwardResources(resources, node_names, sibling_connections) ==
    /\ Len(part_counts) + Cardinality(databases(resources, Len(resources))) <= MaxPartCounts
    /\ returned' = Value("convert_backward_resources",
                         <<resources, node_names, sibling_connections>>,
                         convert_backward_resources(connection, resources, node_names,
                                                    sibling_connections))
    /\ part_counts' = part_counts
                        \o [m \in 1..Cardinality(databases(resources, Len(resources))) |->
                               node_names]
    /\ UNCHANGED <<engine_vars, project_vars, connection, project_dict, specification_vars,
                   kernel_vars>>

\* Connection.from_dict(connection.to_dict())
Restore ==
    /\ returned' = Value("from_dict", <<>>, from_dict(to_dict(connection)))
    /\ UNCHANGED <<engine_vars, project_vars, connection, project_dict, part_counts,
                   specification_vars, kernel_vars>>

\* The methods of one connection; it converts the resources of its edge
\* once.
ConnectionNext ==
    \/ Notifications
    \/ ReadyToExecute
    \/ \E resources \in ResourcesDrawn, node_names \in NodeNamesDrawn,
          sibling_connections \in SiblingsDrawn :
          /\ part_counts = <<>>
          /\ ConvertBackwardResources(resources, node_names, sibling_connections)
    \/ Restore

ConnectionSpec == ConnectionInit /\ [][ConnectionNext]_vars

\* The edges whose connections convert resources backward: two edges into
\* one destination and an edge into another.
EdgesDrawn ==
    {<<"source", "destination">>, <<"source_a", "destination">>,
     <<"source", "other destination">>}

\* The connections of the edges: connections with equal options and filter
\* settings, each called with the names of its edge and no sibling.
EdgesNext ==
    \E resources \in ResourcesDrawn, node_names \in EdgesDrawn :
       ConvertBackwardResources(resources, node_names, <<>>)

EdgesSpec == ConnectionInit /\ [][EdgesNext]_vars

\* --------------------------------------------------- upgrader, actions
\* A project dictionary as read from a project file; no method of a project
\* or of a connection is called.
UpgradeInit ==
    /\ ProjectCreated({})
    /\ connection = NewConnection(NoOptions, DefaultFilterSettings)
    /\ project_dict \in ProjectDictsDrawn
    /\ returned = NothingReturned
    /\ part_counts = <<>>
    /\ NothingElse

\* upgrade(project_dict, project_dir, items_module)
Upgrade ==
    /\ returned' = Value("upgrade", <<>>, upgrade(project_dict))
    /\ UNCHANGED <<engine_vars, project_vars, connection, project_dict, part_counts,
                   specification_vars, kernel_vars>>

UpgradeNext == Upgrade

UpgradeSpec == UpgradeInit /\ [][UpgradeNext]_vars

\* ------------------------------------------ kernel managers, actions
\* A kernel that has a kernel spec and one that has none; the group ids.
KernelNames == {"python3", "no_such_kernel"}
GroupIds == {None, "group"}

\* None, where a kernel manager is expected. A kernel manager is known by its
\* place among the managers made, and its connection file by the same number.
NoKernelManager == 0

\* KernelManager(kernel_name=kernel_name): not alive, no connection file yet.
KernelManager(kernel_name) ==
    [kernel_name |-> kernel_name, alive |-> FALSE, connection_file |-> 0]

\* _KernelManagerFactory.get_kernel_manager
get_kernel_manager(connection_file) ==
    IF connection_file \notin DOMAIN key_by_connection_file THEN NoKernelManager
    ELSE LET key == key_by_connection_file[connection_file]
         IN IF key \in DOMAIN kernel_managers THEN kernel_managers[key]
            ELSE NoKernelManager

\* new_kernel_manager(kernel_name, group_id, logger), with _make_kernel_manager
NewKernelManager(kernel_name, group_id) ==
    LET key == <<kernel_name, group_id>>
        cached == group_id /= None /\ key \in DOMAIN kernel_managers
        km == IF cached THEN kernel_managers[key] ELSE Len(managers_made) + 1
        all == IF cached THEN managers_made
               ELSE Append(managers_made, KernelManager(kernel_name))
    IN /\ cached \/ Len(managers_made) < MaxKernelManagers
       /\ kernel_managers' =
             IF group_id = None \/ cached THEN kernel_managers
             ELSE [k \in DOMAIN kernel_managers \cup {key} |->
                      IF k = key THEN km ELSE kernel_managers[k]]
       /\ IF all[km].alive
          THEN /\ managers_made' = all
               /\ returned' = Value("new_kernel_manager", key, <<km>>)
               /\ UNCHANGED key_by_connection_file
          ELSE IF kernel_name = "no_such_kernel"
          THEN /\ managers_made' = all
               /\ returned' = Value("new_kernel_manager", key, <<NoKernelManager>>)
               /\ UNCHANGED key_by_connection_file
          ELSE /\ managers_made' = [all EXCEPT ![km].alive = TRUE, ![km].connection_file = km]
               /\ key_by_connection_file' =
                     [f \in DOMAIN key_by_connection_file \cup {km} |->
                         IF f = km THEN key ELSE key_by_connection_file[f]]
               /\ returned' = Value("new_kernel_manager", key, <<km>>)
       /\ UNCHANGED <<engine_vars, project_vars, connection, project_dict, part_counts,
                      specification_vars>>

\* get_kernel_manager(connection_file)
GetKernelManager(connection_file) ==
    /\ returned' = Value("get_kernel_manager", <<connection_file>>,
                         <<get_kernel_manager(connection_file)>>)
    /\ UNCHANGED <<engine_vars, project_vars, connection, project_dict, part_counts,
                   specification_vars, kernel_vars>>

\* pop_kernel_manager(connection_file)
PopKernelManager(connection_file) ==
    /\ returned' = Value("pop_kernel_manager", <<connection_file>>,
                         <<get_kernel_manager(connection_file)>>)
    /\ key_by_connection_file' =
          [f \in DOMAIN key_by_connection_file \ {connection_file} |->
              key_by_connection_file[f]]
    /\ kernel_managers' =
          IF connection_file \notin DOMAIN key_by_connection_file THEN kernel_managers
          ELSE [k \in DOMAIN kernel_managers \ {key_by_connection_file[connection_file]} |->
                   kernel_managers[k]]
    /\ UNCHANGED <<engine_vars, project_vars, connection, project_dict, part_counts,
                   specification_vars, managers_made>>

\* The connection files the functions are called with.
ConnectionFiles == 1..MaxKernelManagers

KernelNext ==
    \/ \E kernel_name \in KernelNames, group_id \in GroupIds :
          NewKernelManager(kernel_name, group_id)
    \/ \E connection_file \in ConnectionFiles : GetKernelManager(connection_file)
    \/ \E connection_file \in ConnectionFiles : PopKernelManager(connection_file)

\* A factory that has made no kernel manager.
KernelInit == ProjectCreated({}) /\ NoFunctionCalled

KernelSpec == KernelInit /\ [][KernelNext]_vars

\* ------------------------------------------- vocabulary of the properties
\* The items whose step must be over before the step of i in pass d, read
\* off the successors: the successors of i in the backward pass, the
\* predecessors of i in the forward pass.
DirectDeps(d, i) ==
    IF d = BACKWARD THEN Range(successors[i])
    ELSE {k \in Items : i \in Range(successors[k])}

RECURSIVE TransitiveDeps(_, _, _)
TransitiveDeps(d, i, n) ==
    IF n = 0 THEN {}
    ELSE DirectDeps(d, i) \cup UNION {TransitiveDeps(d, k, n - 1) : k \in DirectDeps(d, i)}

DependsOn(d, i) == TransitiveDeps(d, i, Cardinality(Items))

IsCall(n) == trace[n].kind \in {"execute", "skip"}
IsStarted(n) == trace[n].kind = "exec_started"
IsFinished(n) == trace[n].kind = "exec_finished"
IsStepEntry(n) == IsCall(n) \/ IsStarted(n) \/ IsFinished(n)
Of(n, d, i) == trace[n].direction = d /\ trace[n].item = i

HasCall(d, i) == \E n \in DOMAIN trace : IsCall(n) /\ Of(n, d, i)

\* stop() was called while this run() was in progress / after it returned.
StopInRun == "in_run" \in stop_calls
StopOutsideRun == "outside_run" \in stop_calls

NoStepFailed == \A d \in ExecutionDirection, i \in Items : status[d][i] /= "failure"
RunReturned == pc = "idle" /\ runs > 0

\* The items whose step started in pass d, in the order of the starts.
RECURSIVE StartOrder(_, _)
StartOrder(d, n) ==
    IF n = 0 THEN <<>>
    ELSE IF IsStarted(n) /\ trace[n].direction = d
         THEN Append(StartOrder(d, n - 1), trace[n].item)
         ELSE StartOrder(d, n - 1)

IsPrefix(s, t) == Len(s) <= Len(t) /\ \A n \in DOMAIN s : s[n] = t[n]

Linear ==
    /\ successors["A"] = <<"B">>
    /\ successors["B"] = <<"C">>
    /\ successors["C"] = <<>>

\* ---------------------------------------------------------------- C1
\* C1: the engine state only moves SLEEPING -> RUNNING -> one of COMPLETED,
\* FAILED, USER_STOPPED, and a COMPLETED, FAILED or USER_STOPPED state never
\* changes again, whatever run(), stop() and the step events do.
C1_StateMachine ==
    [][state' /= state =>
          <<state, state'>> \in {<<SLEEPING, RUNNING>>, <<RUNNING, COMPLETED>>,
                                 <<RUNNING, FAILED>>, <<RUNNING, USER_STOPPED>>}]_vars

\* ---------------------------------------------------------------- C2
\* C2: once stop() has set the state to USER_STOPPED while run() is in
\* progress, the state stays USER_STOPPED until run() returns: no step
\* failure and not the end of run() changes it.
C2_StopIsKept ==
    [][(state = USER_STOPPED /\ pc /= "idle") => state' = USER_STOPPED]_vars

\* ---------------------------------------------------------------- C3
\* C3: when run() returns, the state is COMPLETED if and only if no step
\* failed and stop() was not called during the run.
C3_CompletedIff ==
    (RunReturned /\ ~StopOutsideRun) =>
        (state = COMPLETED <=> (NoStepFailed /\ ~StopInRun))

\* ---------------------------------------------------------------- C4
\* C4: a step of the forward pass starts only after the forward steps of all
\* direct predecessors of its item have finished, a step of the backward pass
\* only after the backward steps of all direct successors; in the linear
\* graph A -> B -> C the backward pass visits C, B, A and the forward pass
\* A, B, C.
C4_DependencyOrder ==
    /\ \A n \in DOMAIN trace :
          IsStarted(n) =>
             \A k \in DirectDeps(trace[n].direction, trace[n].item) :
                \E m \in 1..(n - 1) : IsFinished(m) /\ Of(m, trace[n].direction, k)
    /\ Linear =>
          /\ IsPrefix(StartOrder(BACKWARD, Len(trace)), <<"C", "B", "A">>)
          /\ IsPrefix(StartOrder(FORWARD, Len(trace)), <<"A", "B", "C">>)

C4_Witness ==
    /\ Linear
    /\ RunReturned
    /\ StartOrder(BACKWARD, Len(trace)) = <<"C", "B", "A">>
    /\ StartOrder(FORWARD, Len(trace)) = <<"A", "B", "C">>

\* ---------------------------------------------------------------- C5
\* C5: within one run every event and every item step of the BACKWARD
\* direction happens before any event or item step of the FORWARD direction:
\* nothing of BACKWARD follows something of FORWARD, and when something of
\* FORWARD has happened no backward step is still to come.
C5_BackwardBeforeForward ==
    /\ \A m \in DOMAIN trace :
          (IsStepEntry(m) /\ trace[m].direction = FORWARD) =>
             \A n \in (m + 1)..Len(trace) :
                IsStepEntry(n) => trace[n].direction = FORWARD
    /\ (\E n \in DOMAIN trace : IsStepEntry(n) /\ trace[n].direction = FORWARD)
          => \A i \in Items : status[BACKWARD][i] \notin {"pending", "started"}

C5_Witness ==
    /\ \E n \in DOMAIN trace : IsFinished(n) /\ trace[n].direction = BACKWARD
    /\ \E n \in DOMAIN trace : IsCall(n) /\ trace[n].direction = FORWARD

\* ---------------------------------------------------------------- C6
\* C6: for an item X whose execution permit is False, execute is never
\* invoked, in either direction; a run that completes invokes skip on X once
\* in each direction; and every item that depends on X and is executed or
\* skipped gets X's output resources among its inputs, after X was skipped.
C6_ExcludedItem ==
    /\ \A n \in DOMAIN trace : trace[n].kind = "execute" => execution_permits[trace[n].item]
    /\ (RunReturned /\ state = COMPLETED) =>
          \A X \in Items, d \in ExecutionDirection :
             ~execution_permits[X] =>
                Cardinality({n \in DOMAIN trace : trace[n].kind = "skip" /\ Of(n, d, X)}) = 1
    /\ \A n \in DOMAIN trace :
          IsCall(n) =>
             \A X \in DirectDeps(trace[n].direction, trace[n].item) :
                ~execution_permits[X] =>
                   /\ \E m \in 1..(n - 1) : trace[m].kind = "skip" /\ Of(m, trace[n].direction, X)
                   /\ Range(OutputResources(X, trace[n].direction)) \subseteq Range(trace[n].inputs)

C6_Witness ==
    /\ RunReturned
    /\ state = COMPLETED
    /\ ~execution_permits["B"]
    /\ \E n \in DOMAIN trace :
          /\ IsCall(n)
          /\ Of(n, FORWARD, "C")
          /\ "B" \in DirectDeps(FORWARD, "C")
          /\ Range(OutputResources("B", FORWARD)) \subseteq Range(trace[n].inputs)

\* ---------------------------------------------------------------- C7
\* The step of i finished as a failure in pass d, at position f of the trace.
StepFailedAt(f, d) == IsFinished(f) /\ ~trace[f].ok /\ trace[f].direction = d

\* No step that i depends on in pass d has failed.
IndependentOfFailures(d, i) == \A k \in DependsOn(d, i) : status[d][k] /= "failure"

C8_FailureStopsDependents ==
    /\ ~NoStepFailed =>
          /\ state \in {FAILED, USER_STOPPED}
          /\ (~StopInRun /\ ~StopOutsideRun) => state = FAILED
    /\ \A n \in DOMAIN trace :
          IsCall(n) => IndependentOfFailures(trace[n].direction, trace[n].item)

C8_Witness ==
    /\ state = FAILED
    /\ direction = FORWARD
    /\ \E f \in 2..Len(trace), j \in Items :
          /\ StepFailedAt(f, BACKWARD)
          /\ trace[f - 1].kind = "execute"
          /\ trace[f].item \in DependsOn(BACKWARD, j)
          /\ status[BACKWARD][j] = "skipped"

\* ---------------------------------------------------------------- C9
\* C9: once stop() has made the state USER_STOPPED during a run, neither
\* execute nor skip is invoked for a step that begins afterwards, in either
\* pass of that run.
C9_NoNewStepAfterStop ==
    \A c \in DOMAIN trace :
       IsCall(c) =>
          \A s \in 1..(c - 1) :
             (IsStarted(s) /\ Of(s, trace[c].direction, trace[c].item))
                => ~trace[s].after_stop

C9_Witness ==
    /\ state = USER_STOPPED
    /\ \E s \in 2..(Len(trace) - 1) :
          /\ IsStarted(s) /\ trace[s].after_stop
          /\ IsFinished(s + 1) /\ ~trace[s + 1].ok
          /\ \E c \in 1..(s - 1) : IsCall(c) /\ trace[c].after_stop

\* ---------------------------------------------------------------- C10
\* C10: stop() calls stop_execution() on an item only if the step of that
\* item has started and has not yet finished; when no item is executing it
\* calls stop_execution() on no item.
C10_StopExecutionOnlyWhileExecuting ==
    [][(Stop /\ StopAsksItem) => Executing(running_item)]_vars

\* ---------------------------------------------------------------- C11
EventsOf(kind, d, i) == {n \in DOMAIN trace : trace[n].kind = kind /\ Of(n, d, i)}

\* C11 as claimed: in every run, for every item and for each of the two
\* directions, an exec_started event and later an exec_finished event are
\* published.
C11_EveryItemStartedAndFinished ==
    RunReturned =>
        \A d \in ExecutionDirection, i \in Items :
           \E m \in EventsOf("exec_started", d, i) :
              \E n \in EventsOf("exec_finished", d, i) : m < n

\* C11 amended: every exec_finished event follows an exec_started event of
\* the same item and direction and carries the engine state of the time it
\* is published (RUNNING after a success and FAILED after a failure when
\* stop() was not called, USER_STOPPED or FAILED after stop()); when run()
\* returns, every item whose step was not skipped has exactly one
\* exec_started and one exec_finished event in that direction, and an item
\* whose step was skipped, which depends on a failed item, has neither.
C11_StartedThenFinished ==
    /\ \A n \in DOMAIN trace :
          IsFinished(n) =>
             /\ \E m \in 1..(n - 1) : IsStarted(m) /\ Of(m, trace[n].direction, trace[n].item)
             /\ IF trace[n].after_stop
                THEN trace[n].state \in {USER_STOPPED, FAILED}
                ELSE trace[n].state = (IF trace[n].ok THEN RUNNING ELSE FAILED)
    /\ RunReturned =>
          \A d \in ExecutionDirection, i \in Items :
             IF status[d][i] = "skipped"
             THEN /\ EventsOf("exec_started", d, i) = {}
                  /\ EventsOf("exec_finished", d, i) = {}
                  /\ \E k \in DependsOn(d, i) : status[d][k] = "failure"
             ELSE /\ Cardinality(EventsOf("exec_started", d, i)) = 1
                  /\ Cardinality(EventsOf("exec_finished", d, i)) = 1

C11_Witness ==
    /\ RunReturned
    /\ \E d \in ExecutionDirection, i, k \in Items :
          /\ status[d][i] = "skipped"
          /\ EventsOf("exec_started", d, i) = {}
          /\ status[d][k] = "failure"
          /\ \E n \in EventsOf("exec_finished", d, k) : trace[n].state = FAILED

\* ---------------------------------------------------------------- C12
\* C12: with B a successor of A, the loop body of a jump from B to A is
\* {A, B}; when the run completes, the backward and the forward pass have
\* gone over A and B twice (the condition of the jump held after the first
\* forward pass and not after the second): each of the two items has two
\* exec_started events in each direction.
C12_LoopBodyRunsTwice ==
    (RunReturned /\ state = COMPLETED /\ "B" \in Range(successors["A"])) =>
        \A d \in ExecutionDirection, i \in {"A", "B"} :
           Cardinality(EventsOf("exec_started", d, i)) = 2

\* ------------------------------ vocabulary of the project properties
\* There is a directed path of at most k edges from s to d.
RECURSIVE PathWithin(_, _, _)
PathWithin(s, d, k) ==
    \/ s = d
    \/ k > 0 /\ \E e \in edges : e[1] = s /\ PathWithin(e[2], d, k - 1)

PathExists(s, d) == PathWithin(s, d, Cardinality(nodes))

\* The loop body of a jump: the nodes on the paths from its destination to
\* its source.
LoopBody(jump) ==
    {n \in nodes : PathExists(jump.destination, n) /\ PathExists(n, jump.source)}

DisjointOrNested(X, Y) == X \cap Y = {} \/ X \subseteq Y \/ Y \subseteq X

Stored(jump) == \E n \in DOMAIN jumps : jumps[n] = jump

\* How the last call ended.
Rejected(op, error) == result.op = op /\ result.error = error
Accepted(op) == result.op = op /\ result.error = None

\* ---------------------------------------------------------------- C13
\* C13: for every candidate edge (s, d) between existing nodes such that a
\* path from d to s exists already (s = d included), add_edge(s, d) raises
\* InvalidConnection and leaves the edges, with their connections, as they
\* were.
C13_CycleEdgeRejected ==
    [][\A s, d \in nodes :
          (result'.op = "add_edge" /\ PathExists(d, s) /\ AddEdge(s, d)) =>
             /\ result'.error = "InvalidConnection"
             /\ edges' = edges]_vars

C13_Witness ==
    /\ Rejected("add_edge", "InvalidConnection")
    /\ result.message = "cannot create loops"
    /\ \E s, d \in nodes : s /= d /\ PathExists(d, s) /\ <<d, s>> \notin Pairs(edges)

\* ---------------------------------------------------------------- C14
\* C14: whatever calls were made, accepted or rejected, the project graph is
\* a directed acyclic graph and every edge joins two existing nodes.
C14_GraphIsDag ==
    \A e \in edges :
       /\ e[1] \in nodes
       /\ e[2] \in nodes
       /\ ~PathExists(e[2], e[1])

C14_Witness ==
    /\ Accepted("rename_node")
    /\ edges /= {}

\* ---------------------------------------------------------------- C15
TopologyErrors ==
    {"DuplicateName", "DuplicateShortName", "NameContainsInvalidCharacters",
     "ProjectComponentNotFound", "InvalidJump"}

\* C15: every add_node, rename_node, remove_node or make_jump call that
\* raises does so with a topology error and leaves the node set, the edge
\* set and the jump list exactly as they were before the call.
C15_RejectedCallChangesNothing ==
    [][(/\ result'.op \in {"add_node", "rename_node", "remove_node", "make_jump"}
        /\ result'.error /= None)
          => /\ result'.error \in TopologyErrors
             /\ UNCHANGED <<nodes, edges, jumps>>]_vars

C15_Witness ==
    /\ Rejected("make_jump", "InvalidJump")
    /\ jumps /= <<>>
    /\ edges /= {}

\* ---------------------------------------------------------------- C16
\* The step is the call make_jump(s, d) for a second jump between existing
\* nodes, one jump being stored.
SecondJump(s, d) ==
    /\ result'.op = "make_jump"
    /\ Len(jumps) = 1
    /\ Jump(s, d) /= jumps[1]
    /\ MakeJump(s, d)

\* C16 as claimed: make_jump accepts the second jump alongside the first if
\* and only if their loop bodies are disjoint or one is a subset of the
\* other; a partial overlap is rejected with InvalidJump.
C16_AcceptedIffDisjointOrNested ==
    [][\A s, d \in nodes :
          SecondJump(s, d) =>
             /\ jumps' = Append(jumps, Jump(s, d))
                   <=> DisjointOrNested(LoopBody(jumps[1]), LoopBody(Jump(s, d)))
             /\ ~DisjointOrNested(LoopBody(jumps[1]), LoopBody(Jump(s, d)))
                   => result'.error = "InvalidJump"]_vars

\* C16 amended: make_jump accepts the second jump alongside the first if and
\* only if their loop bodies are disjoint or one is a subset of the other,
\* the two jumps have different sources, and the second jump is a jump from
\* a node to itself or has a path from its destination to its source;
\* otherwise, a partial overlap included, it is rejected with InvalidJump and
\* the first jump stays alone.
C16_AcceptedIffCompatible ==
    [][\A s, d \in nodes :
          SecondJump(s, d) =>
             IF /\ DisjointOrNested(LoopBody(jumps[1]), LoopBody(Jump(s, d)))
                /\ s /= jumps[1].source
                /\ (s = d \/ PathExists(d, s))
             THEN jumps' = Append(jumps, Jump(s, d)) /\ result'.error = None
             ELSE jumps' = jumps /\ result'.error = "InvalidJump"]_vars

C16_Witness ==
    /\ Rejected("make_jump", "InvalidJump")
    /\ result.message = "jump cannot partially overlap another"
    /\ Len(jumps) = 1
    /\ \E s, d \in nodes :
          /\ s /= jumps[1].source
          /\ PathExists(d, s)
          /\ ~DisjointOrNested(LoopBody(jumps[1]), LoopBody(Jump(s, d)))

\* ---------------------------------------------------------------- C17
\* C17: whatever calls were accepted, the loop bodies of every two stored
\* jumps are disjoint or one is a subset of the other.
C17_LoopBodiesDisjointOrNested ==
    \A m, n \in DOMAIN jumps :
       DisjointOrNested(LoopBody(jumps[m]), LoopBody(jumps[n]))

\* ---------------------------------------------------------------- C18
\* C18: after every call no two stored jumps have the same source node, and
\* make_jump from a node that is the source of a stored jump to a different
\* destination is rejected with InvalidJump and stores nothing.
C18_OneJumpPerSource ==
    [][/\ \A m, n \in DOMAIN jumps' : jumps'[m].source = jumps'[n].source => m = n
       /\ \A s, d \in nodes :
             (/\ result'.op = "make_jump"
              /\ \E n \in DOMAIN jumps : jumps[n].source = s /\ jumps[n].destination /= d
              /\ MakeJump(s, d))
                => result'.error = "InvalidJump" /\ jumps' = jumps]_vars

C18_Witness ==
    /\ Rejected("make_jump", "InvalidJump")
    /\ result.message = "two jumps cannot start from the same item"
    /\ Len(jumps) = 2
    /\ jumps[1].source /= jumps[2].source

\* ---------------------------------------------------------------- C19
\* C19: make_jump(s, d) with s different from d is rejected with InvalidJump
\* whenever there is a path from s to d or no path from d to s; when only
\* the path from d to s exists it is accepted unless another jump forbids
\* it, and it is accepted when no other jump is stored.
C19_DirectionRule ==
    [][\A s, d \in nodes :
          (result'.op = "make_jump" /\ s /= d /\ MakeJump(s, d)) =>
             IF PathExists(s, d) \/ ~PathExists(d, s)
             THEN result'.error = "InvalidJump" /\ jumps' = jumps
             ELSE \/ /\ result'.error = None
                     /\ jumps' = IF Stored(Jump(s, d)) THEN jumps
                                 ELSE Append(jumps, Jump(s, d))
                  \/ /\ result'.error = "InvalidJump"
                     /\ result'.message \in {"two jumps cannot start from the same item",
                                             "jump cannot partially overlap another"}
                     /\ jumps /= <<>>]_vars

C19_Witness ==
    /\ Rejected("make_jump", "InvalidJump")
    /\ result.message \in {"Cannot loop in forward direction.",
                           "Cannot loop between DAG branches."}
    /\ \E s, d \in nodes : s /= d /\ PathExists(s, d)
    /\ \E s, d \in nodes : s /= d /\ ~PathExists(s, d) /\ ~PathExists(d, s)

\* ---------------------------------------------------------------- C20
\* C20 as claimed: make_jump(n, n) succeeds for every existing node n,
\* whatever edges and whatever other jumps the project has.
C20_SelfJumpAlwaysAccepted ==
    [][\A n \in nodes :
          (result'.op = "make_jump" /\ MakeJump(n, n)) => result'.error = None]_vars

\* C20 amended: make_jump(n, n) succeeds for every existing node n, whatever
\* the edges are, unless n is the source of a stored jump to another node:
\* then it is rejected with InvalidJump and stores nothing.
C20_SelfJumpAcceptedUnlessSource ==
    [][\A n \in nodes :
          (result'.op = "make_jump" /\ MakeJump(n, n)) =>
             IF \E m \in DOMAIN jumps : jumps[m].source = n /\ jumps[m].destination /= n
             THEN /\ result'.error = "InvalidJump"
                  /\ result'.message = "two jumps cannot start from the same item"
                  /\ jumps' = jumps
             ELSE /\ result'.error = None
                  /\ jumps' = IF Stored(Jump(n, n)) THEN jumps
                              ELSE Append(jumps, Jump(n, n))]_vars

C20_Witness ==
    /\ Accepted("make_jump")
    /\ Len(jumps) = 2
    /\ jumps[1].source /= jumps[1].destination
    /\ jumps[2].source = jumps[2].destination
    /\ jumps[2].source \in LoopBody(jumps[1])

\* ---------------------------------------------------------------- C21
\* C21: whatever calls were made, the source and the destination of every
\* stored jump are nodes of the graph.
C21_JumpsJoinNodes ==
    \A n \in DOMAIN jumps : jumps[n].source \in nodes /\ jumps[n].destination \in nodes

C21_Witness ==
    /\ Accepted("remove_node")
    /\ jumps /= <<>>
    /\ \E n \in DOMAIN jumps : jumps[n].source /= jumps[n].destination

\* ---------------------------------------------------------------- C22
\* There is a directed path of at most k edges of E from s to d.
RECURSIVE PathWithinIn(_, _, _, _)
PathWithinIn(E, s, d, k) ==
    \/ s = d
    \/ k > 0 /\ \E e \in E : e[1] = s /\ PathWithinIn(E, e[2], d, k - 1)

PathIn(E, s, d) == PathWithinIn(E, s, d, Cardinality(nodes))

LoopBodyIn(E, jump) ==
    {n \in nodes : PathIn(E, jump.destination, n) /\ PathIn(E, n, jump.source)}

\* The validity rules of the stored jumps in the graph of edges E: a jump to
\* another node goes against a path, never along one, and the loop bodies of
\* every two jumps are disjoint or nested.
JumpsValidIn(E) ==
    /\ \A n \in DOMAIN jumps :
          jumps[n].source /= jumps[n].destination =>
             /\ ~PathIn(E, jumps[n].source, jumps[n].destination)
             /\ PathIn(E, jumps[n].destination, jumps[n].source)
    /\ \A m, n \in DOMAIN jumps :
          DisjointOrNested(LoopBodyIn(E, jumps[m]), LoopBodyIn(E, jumps[n]))

StoredJumpsValid == JumpsValidIn(edges)

\* C22: after remove_node(name) succeeds no stored jump starts or ends at
\* name, and every jump still stored satisfies the direction rule and is
\* disjoint from or nested with every other stored jump in the new graph.
C22_RemoveNodeKeepsValidJumps ==
    [][\A name \in nodes :
          (result'.op = "remove_node" /\ RemoveNode(name)) =>
             /\ result'.error = None
             /\ \A n \in DOMAIN jumps' :
                   jumps'[n].source /= name /\ jumps'[n].destination /= name
             /\ StoredJumpsValid']_vars

\* A removal after which a jump between the two remaining nodes is stored.
C22_Witness ==
    /\ Accepted("remove_node")
    /\ Len(jumps) = 1
    /\ jumps[1].source /= jumps[1].destination
    /\ Cardinality(nodes) = 2

\* ---------------------------------------------------------------- C23
\* The n-th stored jump satisfies the validity rules in the graph of edges E.
JumpValidIn(E, n) ==
    /\ jumps[n].source /= jumps[n].destination =>
          /\ ~PathIn(E, jumps[n].source, jumps[n].destination)
          /\ PathIn(E, jumps[n].destination, jumps[n].source)
    /\ \A m \in DOMAIN jumps :
          DisjointOrNested(LoopBodyIn(E, jumps[m]), LoopBodyIn(E, jumps[n]))

\* Removing the edge e makes a stored jump invalid.
BreaksJump(e) ==
    \E n \in DOMAIN jumps : JumpValidIn(edges, n) /\ ~JumpValidIn(edges \ {e}, n)

\* C23: remove_edge(s, d) of an existing edge raises InvalidJump exactly
\* when removing the edge makes some stored jump invalid.
C23_RaisesIffRemovalBreaksJump ==
    \A e \in edges :
       (ENABLED (RemoveEdge(e[1], e[2]) /\ result'.error = "InvalidJump")) <=> BreaksJump(e)

\* C23, while every stored jump is valid: remove_edge(s, d) of an existing
\* edge raises InvalidJump exactly when some stored jump is invalid in the
\* graph without the edge, and then the edges, with their connections, and
\* the jumps are as before; otherwise the edge is removed and all jumps stay.
C23_RemoveEdgeRaisesIffJumpInvalid ==
    [][\A s, d \in nodes :
          (/\ result'.op = "remove_edge"
           /\ <<s, d, Connection>> \in edges
           /\ RemoveEdge(s, d)) =>
             /\ jumps' = jumps
             /\ IF JumpsValidIn(edges \ {<<s, d, Connection>>})
                THEN result'.error = None /\ edges' = edges \ {<<s, d, Connection>>}
                ELSE result'.error = "InvalidJump" /\ edges' = edges]_vars

\* ---------------------------------------------------------------- C24
\* The name of a node after old was renamed to new.
NameAfter(n, old, new) == IF n = old THEN new ELSE n

\* C24: after rename_node(old, new) succeeds the edges are the previous
\* edges with old replaced by new, each with the connection it had, and the
\* jumps are the previous jumps, in their order, with every source and
\* destination equal to old changed to new; edges and jumps that do not
\* touch old are as before.
C24_RenameKeepsEdgesAndJumps ==
    [][\A old, new \in name_pool :
          (/\ result'.op = "rename_node"
           /\ result'.error = None
           /\ RenameNode(old, new)) =>
             /\ nodes' = {NameAfter(n, old, new) : n \in nodes}
             /\ edges' = {<<NameAfter(e[1], old, new), NameAfter(e[2], old, new), e[3]>> :
                            e \in edges}
             /\ Len(jumps') = Len(jumps)
             /\ \A n \in DOMAIN jumps :
                   /\ jumps'[n].source = NameAfter(jumps[n].source, old, new)
                   /\ jumps'[n].destination = NameAfter(jumps[n].destination, old, new)]_vars

\* A node with an incoming and an outgoing edge of different connections
\* and a jump over it was renamed.
C24_Witness ==
    /\ Accepted("rename_node")
    /\ \E e, f \in edges : e[2] = "d" /\ f[1] = "d" /\ e[3] /= f[3]
    /\ \E n \in DOMAIN jumps : jumps[n].source = "d" \/ jumps[n].destination = "d"
    /\ \E n \in DOMAIN jumps : jumps[n].source /= "d" /\ jumps[n].destination /= "d"

\* ---------------------------------------------------------------- C25
\* The short form of a name: lower case.
ShortForm(name) == IF name = "A" THEN "a" ELSE name

\* C25: rename_node(name, new_name) raises ProjectComponentNotFound when
\* name is not a node, else DuplicateName when new_name is the name of a
\* node, else DuplicateShortName when the short form of new_name is the
\* short form of a node, the renamed one included; in every other case it
\* succeeds.
C25_RenameErrors ==
    [][\A name, new_name \in name_pool \cup {InvalidName} :
          (result'.op = "rename_node" /\ RenameNode(name, new_name)) =>
             result'.error =
                IF name \notin nodes THEN "ProjectComponentNotFound"
                ELSE IF new_name \in nodes THEN "DuplicateName"
                ELSE IF \E n \in nodes : ShortForm(n) = ShortForm(new_name)
                     THEN "DuplicateShortName"
                ELSE None]_vars

\* A rename was refused for the short name alone, in a project where
\* another rename is possible.
C25_Witness ==
    /\ Rejected("rename_node", "DuplicateShortName")
    /\ nodes /= {}
    /\ \E new_name \in name_pool : \A n \in nodes : ShortForm(n) /= ShortForm(new_name)

\* ---------------------------------------------------------------- C26
\* C26: whatever add_node, rename_node and remove_node calls were made, the
\* short forms of the node names are pairwise distinct, names being distinct
\* as the elements of a set; add_node with the name of a node raises
\* DuplicateName, and add_node with another name whose short form is the
\* short form of a node raises DuplicateShortName.
C26_NamesAndShortNamesDistinct ==
    [][/\ \A m, n \in nodes' : ShortForm(m) = ShortForm(n) => m = n
       /\ \A name \in name_pool \cup {InvalidName} :
             (result'.op = "add_node" /\ AddNode(name)) =>
                /\ name \in nodes => result'.error = "DuplicateName"
                /\ (name \notin nodes /\ \E n \in nodes : ShortForm(n) = ShortForm(name)) =>
                      result'.error = "DuplicateShortName"]_vars

\* C26, the invariant alone: the short forms of the node names are pairwise
\* distinct.
C26_ShortNamesDistinct ==
    \A m, n \in nodes : ShortForm(m) = ShortForm(n) => m = n

\* ------------------------------ vocabulary of the connection properties
\* The value of an option of the connection c, or the default of the option.
OptionOf(c, key, default) ==
    IF Len(c.options[key]) = 0 THEN default ELSE c.options[key][1]

\* ---------------------------------------------------------------- C27
\* C27: convert_backward_resources returns the resources in their order,
\* every database resource with "current" equal to the node names of the
\* edge and "precursors" equal to the set of the sibling edges whose write
\* index (1 when not set) is less than that of the connection, whether the
\* use_memory_db option is set or not.
C27_BackwardResourcesStamped ==
    returned.op = "convert_backward_resources" =>
       LET resources == returned.args[1]
           node_names == returned.args[2]
           sibling_connections == returned.args[3]
       IN /\ Len(returned.value) = Len(resources)
          /\ \A n \in DOMAIN resources :
                /\ returned.value[n].type_ = resources[n].type_
                /\ resources[n].type_ = "database" =>
                      /\ returned.value[n].metadata.current = node_names
                      /\ returned.value[n].metadata.precursors =
                            {names \in DOMAIN sibling_connections :
                                OptionOf(sibling_connections[names], "write_index", 1)
                                   < OptionOf(connection, "write_index", 1)}

\* A connection that uses a memory database stamped a database resource
\* with one of two siblings as its precursor.
C27_Witness ==
    /\ returned.op = "convert_backward_resources"
    /\ OptionOf(connection, "use_memory_db", FALSE)
    /\ Cardinality(DOMAIN returned.args[3]) = 2
    /\ \E n \in DOMAIN returned.value :
          /\ returned.value[n].type_ = "database"
          /\ returned.value[n].metadata.memory
          /\ returned.value[n].metadata.current = <<"source", "destination">>
          /\ returned.value[n].metadata.precursors = {<<"source_a", "destination">>}

\* ---------------------------------------------------------------- C28
\* The scenario filter type is required on the connection.
ScenarioRequired == OptionOf(connection, "require_scenario_filter", FALSE)

\* Some known scenario filter of the connection is online.
ScenarioFilterOnline ==
    \E label \in DOMAIN connection.filter_settings.known_filters :
       LET by_type == connection.filter_settings.known_filters[label]
       IN /\ SCENARIO_FILTER_TYPE \in DOMAIN by_type
          /\ \E name \in DOMAIN by_type[SCENARIO_FILTER_TYPE] :
                by_type[SCENARIO_FILTER_TYPE][name]

\* The connection knows a filter, of whatever type, online or not.
SomeFilterKnown ==
    \E label \in DOMAIN connection.filter_settings.known_filters :
       \E filter_type \in DOMAIN connection.filter_settings.known_filters[label] :
          DOMAIN connection.filter_settings.known_filters[label][filter_type] /= {}

ScenarioMessage == <<"At least one scenario filter must be active.">>

\* C28 as claimed: notifications() returns the scenario message if and only
\* if the scenario filter type is required and no scenario filter is online,
\* neither a known filter nor by auto_online; otherwise it returns an empty
\* list.
C28_MessageIffNothingOnline ==
    returned.op = "notifications" =>
       returned.value =
          IF /\ ScenarioRequired
             /\ ~ScenarioFilterOnline
             /\ ~connection.filter_settings.auto_online
          THEN ScenarioMessage ELSE <<>>

\* C28, amended: notifications() returns the scenario message if and only if
\* the scenario filter type is required and either the connection knows some
\* filter and no scenario filter is online, or it knows no filter and
\* auto_online is off; otherwise it returns an empty list.
C28_MessageIffRequiredFilterOffline ==
    returned.op = "notifications" =>
       returned.value =
          IF /\ ScenarioRequired
             /\ IF SomeFilterKnown THEN ~ScenarioFilterOnline
                ELSE ~connection.filter_settings.auto_online
          THEN ScenarioMessage ELSE <<>>

\* The message was returned for a connection whose auto_online is on.
C28_Witness ==
    /\ returned.op = "notifications"
    /\ returned.value = ScenarioMessage
    /\ connection.filter_settings.auto_online
    /\ SomeFilterKnown

\* ---------------------------------------------------------------- C29
\* C29: Connection.from_dict(c.to_dict()) equals c for every connection c:
\* the same options and the same filter settings.
C29_RestoredEqualsOriginal ==
    returned.op = "from_dict" =>
       /\ returned.value.options = connection.options
       /\ returned.value.filter_settings = connection.filter_settings

\* ---------------------------------------------------------------- C30
\* C30: upgrade() raises ProjectVersionTooHigh and returns nothing when the
\* version of the project is greater than LATEST_PROJECT_VERSION, and for a
\* project of that version it returns the dictionary as it is, with the old
\* and the new version both equal to it.
C30_TooHighRaisesLatestUnchanged ==
    returned.op = "upgrade" =>
       /\ project_dict.project.version > LATEST_PROJECT_VERSION =>
             /\ returned.value.error = "ProjectVersionTooHigh"
             /\ returned.value.tuple = <<>>
       /\ project_dict.project.version = LATEST_PROJECT_VERSION =>
             /\ returned.value.error = None
             /\ returned.value.tuple =
                   <<project_dict, LATEST_PROJECT_VERSION, LATEST_PROJECT_VERSION>>

\* upgrade was called on a project of a version above the latest.
C30_Witness ==
    /\ returned.op = "upgrade"
    /\ project_dict.project.version > LATEST_PROJECT_VERSION
    /\ returned.value.error = "ProjectVersionTooHigh"

\* ---------------------------------------------------------------- C31
\* The orders in which the items of S can be listed.
Orderings(S) ==
    {s \in [1..Cardinality(S) -> S] : \A m, n \in DOMAIN s : s[m] = s[n] => m = n}

\* The output resource lists of the listed items in direction d, one after
\* the other.
RECURSIVE OutputsOf(_, _)
OutputsOf(s, d) ==
    IF s = <<>> THEN <<>>
    ELSE OutputResources(Head(s), d) \o OutputsOf(Tail(s), d)

\* C31: the inputs handed to an item's execute or skip are exactly the
\* output resource lists of its direct predecessors in the active graph
\* (its successors in the backward pass, its predecessors in the forward
\* pass) one after the other, each list in its own order, and nothing of
\* any other item.
C31_InputsAreDirectOutputs ==
    \A n \in DOMAIN trace :
        IsCall(n) =>
            \E s \in Orderings(DirectDeps(trace[n].direction, trace[n].item)) :
                trace[n].inputs = OutputsOf(s, trace[n].direction)

C31_Witness ==
    \E n \in DOMAIN trace :
        /\ IsCall(n)
        /\ Cardinality(DirectDeps(trace[n].direction, trace[n].item)) = 2
        /\ Len(trace[n].inputs) = 3

\* ---------------------------------------------------------------- C32
\* C32: if a step has failed in the backward pass, then in the forward pass
\* of the same run neither execute nor skip is invoked for any item, and
\* every forward step that starts finishes as a failure at once.
C32_BackwardFailureFailsForward ==
    (\E f \in DOMAIN trace : StepFailedAt(f, BACKWARD)) =>
        /\ \A n \in DOMAIN trace : IsCall(n) => trace[n].direction /= FORWARD
        /\ \A s \in 1..(Len(trace) - 1) :
              (IsStarted(s) /\ trace[s].direction = FORWARD) => StepFailedAt(s + 1, FORWARD)

C32_Witness ==
    /\ ~StopInRun
    /\ RunReturned
    /\ \E f \in 2..Len(trace) :
          /\ StepFailedAt(f, BACKWARD)
          /\ trace[f - 1].kind = "execute"
    /\ \A i \in Items :
          \E s \in 1..(Len(trace) - 1) :
             /\ IsStarted(s) /\ Of(s, FORWARD, i)
             /\ StepFailedAt(s + 1, FORWARD)

\* ---------------------------------------------------------------- C33
\* The jump does not start or end at name and name is not in its loop body.
Unaffected(jump, name) ==
    /\ jump.source /= name
    /\ jump.destination /= name
    /\ name \notin LoopBody(jump)

C34_NoInvalidCharacters ==
    \A n \in nodes : Characters(n) \cap INVALID_CHARS = {}

\* ---------------------------------------------------------------- C35
\* C35: rename_node(name, new_name) of a node succeeds whenever new_name is
\* not the name of a node and its short form differs from the short form of
\* every node other than the renamed one, as when only the letter case of
\* the name changes.
C35_RenameSucceedsUnlessOtherClashes ==
    [][\A name \in nodes, new_name \in name_pool \cup {InvalidName} :
          (/\ result'.op = "rename_node"
           /\ RenameNode(name, new_name)
           /\ new_name \notin nodes
           /\ \A n \in nodes \ {name} : ShortForm(n) /= ShortForm(new_name))
             => result'.error = None]_vars

\* ---------------------------------------------------------------- C36
\* The counter objects on the database resources that were converted
\* backward for the edge.
CountersOf(edge) == {n \in DOMAIN part_counts : part_counts[n] = edge}

\* C36: for every destination node, the database resources converted
\* backward by the different edges into that destination carry one and the
\* same counter object.
C36_EdgesShareCounter ==
    \A e, f \in EdgesDrawn :
       (e /= f /\ e[2] = f[2]) =>
          \A m \in CountersOf(e), n \in CountersOf(f) : m = n

\* ---------------------------------------------------------------- C37
\* C37: ready_to_execute() of a connection returns False exactly when
\* notifications() of the same connection is not empty.
C37_NotReadyIffNotified ==
    returned.op = "ready_to_execute" =>
       (returned.value = <<FALSE>> <=> notifications(connection) /= <<>>)

\* ---------------------------------------------------------------- C38
\* C38: remove_specification(name) of a specification of the project
\* removes it from the project and sets to None the specification of
\* exactly the items that used it, whatever specification, or none, the
\* other items have; for a name without specification it raises
\* ProjectComponentNotFound and changes nothing.
C38_RemoveSpecification ==
    [][\A name \in SpecificationNames :
          (result'.op = "remove_specification" /\ RemoveSpecification(name)) =>
             IF name \in Range(specifications)
             THEN /\ result'.error = None
                  /\ Range(specifications') = Range(specifications) \ {name}
                  /\ Len(spec_items') = Len(spec_items)
                  /\ \A n \in DOMAIN spec_items :
                        /\ spec_items'[n].name = spec_items[n].name
                        /\ spec_items'[n].specification =
                              IF spec_items[n].specification = name THEN None
                              ELSE spec_items[n].specification
             ELSE /\ result'.error = "ProjectComponentNotFound"
                  /\ UNCHANGED <<specifications, spec_items>>]_vars

\* ---------------------------------------------------------------- C39
\* C39: for every project version v below LATEST_PROJECT_VERSION, upgrade()
\* returns the tuple (dictionary, v, new version) in which the version of
\* the dictionary is the new version.
C39_UpgradedVersionIsNewVersion ==
    (returned.op = "upgrade" /\ project_dict.project.version < LATEST_PROJECT_VERSION) =>
       /\ returned.value.error = None
       /\ Len(returned.value.tuple) = 3
       /\ returned.value.tuple[2] = project_dict.project.version
       /\ returned.value.tuple[1].project.version = returned.value.tuple[3]

\* ---------------------------------------------------------------- C40
\* C40: after new_kernel_manager(kernel_name, group_id) has started a kernel
\* with connection file f, get_kernel_manager(f) returns that kernel manager
\* until pop_kernel_manager(f) is called, for every group id, None included;
\* after pop_kernel_manager(f) both get_kernel_manager(f) and
\* pop_kernel_manager(f) return None.
C40_GetReturnsStartedUntilPopped ==
    [][/\ \A km \in DOMAIN managers_made', f \in ConnectionFiles :
             (/\ returned'.op = "new_kernel_manager"
              /\ returned'.value = <<km>>
              /\ managers_made'[km].connection_file = f
              /\ km \in DOMAIN managers_made => ~managers_made[km].alive)
                => get_kernel_manager(f)' = km
       /\ \A f \in ConnectionFiles :
             (/\ get_kernel_manager(f) /= NoKernelManager
              /\ ~(returned'.op = "pop_kernel_manager" /\ returned'.args = <<f>>))
                => get_kernel_manager(f)' = get_kernel_manager(f)
       /\ \A f \in ConnectionFiles :
             (returned'.op = "pop_kernel_manager" /\ returned'.args = <<f>>)
                => /\ get_kernel_manager(f)' = NoKernelManager
                   /\ f \notin DOMAIN key_by_connection_file']_vars

\* ------------------------------------------------------- type invariant
TypeOK ==
    /\ nodes \subseteq name_pool \cup {InvalidName}
    /\ \A e \in edges : e[3] \in Connections
    /\ \A n \in DOMAIN jumps : DOMAIN jumps[n] = {"source", "destination"}
    /\ result.op \in {"none", "add_node", "rename_node", "remove_node",
                      "add_edge", "remove_edge", "make_jump",
                      "add_specification", "remove_specification"}
    /\ Len(spec_items) <= Cardinality(nodes)
    /\ state \in SpineEngineState
    /\ running_item \in Items \cup {None}
    /\ current \in Items \cup {None}
    /\ direction \in ExecutionDirection
    /\ runs \in 0..MaxRuns
    /\ DOMAIN connection = {"options", "filter_settings"}
    /\ connection.filter_settings.auto_online \in BOOLEAN
    /\ project_dict.project.version \in 1 .. LATEST_PROJECT_VERSION + 1
    /\ returned.op \in {"none", "notifications", "ready_to_execute",
                        "convert_backward_resources", "from_dict", "upgrade",
                        "new_kernel_manager", "get_kernel_manager", "pop_kernel_manager"}
    /\ Len(managers_made) <= MaxKernelManagers
    /\ \A key \in DOMAIN kernel_managers : kernel_managers[key] \in DOMAIN managers_made
    /\ Len(part_counts) <= MaxPartCounts
====
